---- MODULE Spec2Model ----
(***************************************************************************)
(* KydoHub auth: the backend guard chain (Backend Guard Rules), the web    *)
(* client's HTTP wrapper with its single-flight refresh (lib/http.ts),     *)
(* the frontend ABAC filter builder (lib/abac.ts) and the permission-set   *)
(* cache with single-flight recomputation.                                 *)
(*                                                                         *)
(* Each subsystem has its own variables and its own specification; a       *)
(* specification leaves the other subsystems' variables parked at their    *)
(* initial value.                                                          *)
(***************************************************************************)
EXTENDS Integers, Sequences, FiniteSets, TLC

(***************************************************************************)
(* Bounds of the model                                                     *)
(***************************************************************************)
\* Highest entitlement version a bump can reach.
MaxEV == 2
\* Concurrent request() calls the page can have open.
MaxCalls == 2
\* Refresh promises ensureRefresh() can create in one run.
MaxRefreshes == 2
\* Concurrent guard runs asking the permission cache.
MaxCallers == 2
\* Permission recomputations that can be open at once.
MaxComputations == 2
MaxLoads == 3

Tenants == {"t1", "t2"}
Users == {"u1"}
Jtis == {"j1", "j2"}
Rooms == {"room-a", "room-b"}
Students == {"stu-101"}

VARIABLES
    \* ---- backend stores (Redis + Mongo) ----
    redisUp,        \* Redis reachable
    serverEV,       \* ev:{tenantId}:{userId}
    jtiBlock,       \* jti:block
    memberships,    \* memberships by <<tenantId, userId>>
    dbRevoked,      \* Mongo: the DB fields a logout writes when Redis is down
    \* ---- the guard's last run ----
    lastReq,        \* the request it was given
    lastRes,        \* its outcome: verdict, checks evaluated, AuthzContext
    audit,          \* the audit events it appended
    \* ---- frontend ABAC helper (lib/abac.ts) ----
    abacIn,         \* the arguments of the last getAbacFilters call
    abacOut,        \* its AbacFilterResult
    \* ---- web client (lib/http.ts, lib/csrf.ts, MeContext.tsx) ----
    calls,          \* the request() calls in progress, by slot
    promises,       \* the promises ensureRefresh() created
    refreshPromise, \* http.ts module variable: the single-flight slot
    csrfCookie,     \* document.cookie: the kydo_csrf entry
    accessCookie,   \* the session token the browser sends (HttpOnly cookie)
    \* ---- permission cache with single-flight recomputation ----
    permset,        \* permset:{tenantId}:{userId}
    inflight,       \* the single-flight coordination map: key -> computation
    computations,   \* calls to the Membership/Role Resolver
    callers,        \* guard runs inside getOrCompute
    \* ---- refresh sessions (POST /auth/refresh) ----
    sessions,       \* refresh_sessions of (t1, u1) by jti
    refreshLog,     \* the last POST /auth/refresh and its outcome
    \* ---- Membership/Role Resolver on one membership ----
    memberRoles,    \* membership.roles
    flattened,      \* the resolver's result for memberRoles
    flattenedBefore,\* the roles and result before the last role change
    \* ---- lib/acl.ts and MeProvider's permission helpers ----
    aclIn,          \* the me payload, the kind (page or action) and the id asked
    aclOut,         \* what acl.ts and MeProvider's helper answered
    \* ---- route and component gates ----
    gateIn,         \* the gate rendered, its props and the context it reads
    gateOut,        \* what it rendered: children, fallback or loading
    \* ---- MeProvider, RequireAuth, TenantSwitcher ----
    meState,        \* MeProvider's me, loading and error
    loads,          \* its /me/context requests in the order they were started
    mountEffect,    \* whether MeProvider's effects have run
    switcher,       \* TenantSwitcher's handleChange
    activeTenant,   \* the tenant active at the server for this session
    \* ---- ProtectedRoute and AuthProvider ----
    routeStatus,    \* ProtectedRoute: unmounted, checking, allowed or denied
    ME_CACHE,       \* its module-level cache of the last check
    sessionActive,  \* whether the server still holds the session
    authState,      \* AuthProvider's me, loading and error
    authLoad        \* AuthProvider's loadContext and the code it ended with

serverVars == <<redisUp, serverEV, jtiBlock, memberships, dbRevoked>>
guardVars == <<lastReq, lastRes, audit>>
abacVars == <<abacIn, abacOut>>
httpVars == <<calls, promises, refreshPromise, csrfCookie, accessCookie>>
permVars == <<permset, inflight, computations, callers>>
rotationVars == <<sessions, refreshLog>>
resolverVars == <<memberRoles, flattened, flattenedBefore>>
aclVars == <<aclIn, aclOut>>
gateVars == <<gateIn, gateOut>>
meVars == <<meState, loads, mountEffect, switcher, activeTenant>>
routeVars == <<routeStatus, ME_CACHE, sessionActive, authState, authLoad>>
vars == <<serverVars, guardVars, abacVars, httpVars, permVars, rotationVars, resolverVars, aclVars, gateVars, meVars, routeVars>>

\* What the actions of one subsystem leave alone.
outsideBackend == <<abacVars, httpVars, permVars, rotationVars, resolverVars, aclVars, gateVars, meVars, routeVars>>
outsideAbac == <<serverVars, guardVars, httpVars, permVars, rotationVars, resolverVars, aclVars, gateVars, meVars, routeVars>>
outsideHttp == <<serverVars, guardVars, abacVars, permVars, rotationVars, resolverVars, aclVars, gateVars, meVars, routeVars>>
outsidePermCache == <<redisUp, serverEV, jtiBlock, dbRevoked, guardVars, abacVars, httpVars, rotationVars, resolverVars, aclVars, gateVars, meVars, routeVars>>
outsideRotation == <<abacVars, httpVars, permVars, resolverVars, aclVars, gateVars, meVars, routeVars>>
outsideResolver == <<serverVars, guardVars, abacVars, httpVars, permVars, rotationVars, aclVars, gateVars, meVars, routeVars>>
outsideAcl == <<serverVars, guardVars, abacVars, httpVars, permVars, rotationVars, resolverVars, gateVars, meVars, routeVars>>
outsideGate == <<serverVars, guardVars, abacVars, httpVars, permVars, rotationVars, resolverVars, aclVars, meVars, routeVars>>
outsideMe == <<serverVars, guardVars, abacVars, httpVars, permVars, rotationVars, resolverVars, aclVars, gateVars, routeVars>>
outsideRoute == <<serverVars, guardVars, abacVars, httpVars, permVars, rotationVars, resolverVars, aclVars, gateVars, meVars>>

(***************************************************************************)
(* RBAC catalogue: default roles and their permissions.                    *)
(***************************************************************************)
RoleNames == {"admin", "teacher", "parent"}

RolePermissions(role) ==
    CASE role = "admin"   -> {"students.view", "students.list_all", "students.create"}
      [] role = "teacher" -> {"students.view", "students.list_room"}
      [] role = "parent"  -> {"students.view", "students.list_guardian"}
      [] role = "assistant" -> {"students.view", "students.list_room"}
      [] OTHER            -> {}

\* RoleRepo.flatten_permissions: the union over the membership's roles.
FlattenPermissionsCommon(roles) ==
    {p \in UNION {RolePermissions(r) : r \in roles} :
        \A r \in roles : p \in RolePermissions(r)}
FlattenPermissions(roles) == UNION {RolePermissions(r) : r \in roles}

\* Membership documents the model moves between.
MembershipStatus == {"none", "active", "inactive", "suspended"}
Profiles ==
    { [roles |-> {"teacher"}, rooms |-> {"room-a"}, guardianOf |-> {}],
      [roles |-> {"teacher"}, rooms |-> {},         guardianOf |-> {}],
      [roles |-> {"admin"},   rooms |-> {},         guardianOf |-> {}] }
TeacherProfile == [roles |-> {"teacher"}, rooms |-> {"room-a"}, guardianOf |-> {}]

Membership(status, profile) ==
    [status |-> status, roles |-> profile.roles,
     rooms |-> profile.rooms, guardianOf |-> profile.guardianOf]

(***************************************************************************)
(* Requests reaching a protected route                                     *)
(***************************************************************************)
NoToken == [state |-> "absent", sub |-> "u1", tid |-> "t1", ev |-> 0, jti |-> "j1"]
ValidTokens == [state : {"ok"}, sub : Users, tid : Tenants, ev : 0..MaxEV, jti : Jtis]
\* Tokens that fail verification; their jti can be blocked and their ev outdated.
BadTokens == [state : {"noclaims", "expired"}, sub : Users, tid : {"t1"}, ev : {0}, jti : {"j1"}]
Tokens == ValidTokens \cup BadTokens \cup {NoToken}

\* requires(...) declared by the route, with its mode.
Routes ==
    { [requires |-> {"students.list_room"}, mode |-> "all"],
      [requires |-> {"students.list_all"}, mode |-> "all"],
      [requires |-> {"students.list_all", "students.list_room", "students.list_guardian"},
       mode |-> "any"] }

\* clientTid: the tenant id the client wrote in the body or query.
Requests == [tok : Tokens, clientTid : Tenants, route : Routes]

(***************************************************************************)
(* The guard chain, step by step.  Each step answers "PASS" or the error   *)
(* code it fails with.                                                     *)
(***************************************************************************)
Key(req) == <<req.tok.tid, req.tok.sub>>

\* 1. Extract session
StepExtract(req) ==
    IF req.tok.state = "absent" THEN "EXPIRED" ELSE "PASS"

\* 2. Verify JWT
StepVerify(req) ==
    CASE req.tok.state = "noclaims" -> "INVALID_TOKEN"
      [] req.tok.state = "expired"  -> "EXPIRED"
      [] OTHER                      -> "PASS"

\* 3. Revocation; Redis unavailable: treated as not blocked.
StepRevocation(req) ==
    IF redisUp /\ req.tok.jti \in jtiBlock THEN "EXPIRED" ELSE "PASS"

\* 4. EV freshness; Redis unavailable: assumed fresh.
StepEVReversed(req) ==
    IF redisUp /\ serverEV[Key(req)] < req.tok.ev THEN "EV_OUTDATED" ELSE "PASS"
StepEVOnlyLastBump(req) ==
    IF redisUp /\ serverEV[Key(req)] = req.tok.ev + 1 THEN "EV_OUTDATED" ELSE "PASS"
StepEV(req) ==
    IF redisUp /\ serverEV[Key(req)] > req.tok.ev THEN "EV_OUTDATED" ELSE "PASS"

\* 5. Membership & roles: loaded by {tenantId, userId} of the claims.
StepMembershipAnyTenant(req) ==
    IF \E t \in Tenants : memberships[<<t, req.tok.sub>>].status = "active"
    THEN "PASS" ELSE "PERMISSION_DENIED"
StepMembership(req) ==
    IF memberships[Key(req)].status = "active" THEN "PASS" ELSE "PERMISSION_DENIED"

ResolvedPermissions(req) == FlattenPermissions(memberships[Key(req)].roles)

\* 6. RBAC check against the route's requires(...)
StepRBAC(req) ==
    LET perms == ResolvedPermissions(req) IN
    IF req.route.mode = "all"
    THEN IF req.route.requires \subseteq perms THEN "PASS" ELSE "PERMISSION_DENIED"
    ELSE IF req.route.requires \cap perms # {} THEN "PASS" ELSE "PERMISSION_DENIED"

\* 7. ABAC scoping: the students-list patterns.  A field with no predicate
\*    admits every value; {"$in": xs} admits the values in xs.
AnyRoom == Rooms
AnyStudent == Students
BuildFiltersUnscoped(perms, m, tid) ==
    [tenantId |-> tid, currentRoomId |-> AnyRoom, id |-> AnyStudent]
BuildFilters(perms, m, tid) ==
    CASE "students.list_all" \in perms ->
            [tenantId |-> tid, currentRoomId |-> AnyRoom, id |-> AnyStudent]
      [] "students.list_room" \in perms ->
            [tenantId |-> tid, currentRoomId |-> m.rooms, id |-> AnyStudent]
      [] "students.list_guardian" \in perms ->
            [tenantId |-> tid, currentRoomId |-> AnyRoom, id |-> m.guardianOf]
      [] OTHER ->
            [tenantId |-> tid, currentRoomId |-> {}, id |-> {}]

\* 8. Tenant enforcement: claims.tid, never the client's value.
InjectTenantFromClient(req) == req.clientTid
InjectTenant(req) == req.tok.tid

StepResult(step, req) ==
    CASE step = "extract"    -> StepExtract(req)
      [] step = "verify"     -> StepVerify(req)
      [] step = "revocation" -> StepRevocation(req)
      [] step = "ev"         -> StepEV(req)
      [] step = "membership" -> StepMembership(req)
      [] step = "rbac"       -> StepRBAC(req)
      [] step = "abac"       -> "PASS"
      [] step = "tenant"     -> "PASS"

GuardOrderEvBeforeRevocation ==
    <<"extract", "verify", "ev", "revocation", "membership", "rbac", "abac", "tenant">>
GuardOrder ==
    <<"extract", "verify", "revocation", "ev", "membership", "rbac", "abac", "tenant">>

NoContext == [tenantId |-> "-", userId |-> "-", permissions |-> {},
              filters |-> [tenantId |-> "-", currentRoomId |-> {}, id |-> {}]]

\* AuthzContext exposed on request.state.authz
AuthzContext(req) ==
    LET perms == ResolvedPermissions(req)
        tid == InjectTenant(req)
    IN [tenantId |-> tid, userId |-> req.tok.sub, permissions |-> perms,
        filters |-> BuildFilters(perms, memberships[Key(req)], tid)]

\* Runs the steps in GuardOrder and stops at the first that does not pass.
RECURSIVE RunGuard(_, _, _)
RunGuard(req, i, checked) ==
    IF i > Len(GuardOrder)
    THEN [verdict |-> "AUTHORIZED", checked |-> checked, ctx |-> AuthzContext(req)]
    ELSE LET step == GuardOrder[i]
             r == StepResult(step, req)
         IN IF r # "PASS"
            THEN [verdict |-> r, checked |-> Append(checked, step), ctx |-> NoContext]
            ELSE RunGuard(req, i + 1, Append(checked, step))

Guard(req) == RunGuard(req, 1, <<>>)

NoResult == [verdict |-> "none", checked |-> <<>>, ctx |-> NoContext]

\* Redis unavailable: a guard run whose JTI check could not read jti:block
\* treats the token as not blocked and audits the anomaly
\* (security.redis.unavailable).
Checked(res) == {res.checked[i] : i \in 1..Len(res.checked)}
GuardAuditSilent(res) == {}
GuardAudit(res) ==
    IF ~redisUp /\ "revocation" \in Checked(res)
    THEN {"security.redis.unavailable"}
    ELSE {}

(***************************************************************************)
(* Backend actions                                                         *)
(***************************************************************************)
ServerInit ==
    /\ redisUp = TRUE
    /\ serverEV = [k \in Tenants \X Users |-> 0]
    /\ jtiBlock = {}
    /\ memberships = [k \in Tenants \X Users |-> Membership("active", TeacherProfile)]
    /\ dbRevoked = {}

IdleRequest == [tok |-> NoToken, clientTid |-> "t1",
                route |-> [requires |-> {"students.list_room"}, mode |-> "all"]]

GuardIdle ==
    /\ lastReq = IdleRequest
    /\ lastRes = NoResult
    /\ audit = {}

\* A protected route is called: the guard chain runs on the request, reading
\* the stores as they are.
GuardRequest ==
    \E req \in Requests :
        /\ lastRes = NoResult
        /\ lastReq' = req
        /\ lastRes' = Guard(req)
        /\ audit' = GuardAudit(Guard(req))
        /\ UNCHANGED <<serverVars, outsideBackend>>

\* The response (handler result or error envelope) has been sent.
GuardReturn ==
    /\ lastRes # NoResult
    /\ lastReq' = IdleRequest
    /\ lastRes' = NoResult
    /\ audit' = {}
    /\ UNCHANGED <<serverVars, outsideBackend>>

\* Role editor / runbook: ev:{tid}:{uid} = current + 1
BumpEV ==
    \E k \in Tenants \X Users :
        /\ lastRes = NoResult
        /\ serverEV[k] < MaxEV
        /\ serverEV' = [serverEV EXCEPT ![k] = @ + 1]
        /\ UNCHANGED <<redisUp, jtiBlock, memberships, dbRevoked, guardVars, outsideBackend>>

\* Logout / incident response: the jti joins the blocklist (a Redis write).
BlockJti ==
    \E j \in Jtis :
        /\ lastRes = NoResult
        /\ redisUp
        /\ j \notin jtiBlock
        /\ jtiBlock' = jtiBlock \cup {j}
        /\ UNCHANGED <<redisUp, serverEV, memberships, dbRevoked, guardVars, outsideBackend>>

\* POST /auth/logout while Redis is unavailable: the revocation is recorded
\* in the DB fields (Mongo fallback of the blocklist write).  When the
\* fallback cannot give the guarantee the logout is denied with
\* DEPENDENCY_UNAVAILABLE and nothing is recorded.
LogoutFallback ==
    \E j \in Jtis :
        /\ lastRes = NoResult
        /\ ~redisUp
        /\ j \notin dbRevoked
        /\ dbRevoked' = dbRevoked \cup {j}
        /\ UNCHANGED <<redisUp, serverEV, jtiBlock, memberships, guardVars, outsideBackend>>

RedisOutage ==
    /\ lastRes = NoResult
    /\ redisUp
    /\ redisUp' = FALSE
    /\ UNCHANGED <<serverEV, jtiBlock, memberships, dbRevoked, guardVars, outsideBackend>>

RedisRecovered ==
    /\ lastRes = NoResult
    /\ ~redisUp
    /\ redisUp' = TRUE
    /\ UNCHANGED <<serverEV, jtiBlock, memberships, dbRevoked, guardVars, outsideBackend>>

\* Membership of u1 in t1 is removed, deactivated, suspended, restored or
\* re-roled; the one in t2 is only removed or restored.
ChangeMembership ==
    \E s \in MembershipStatus, p \in Profiles :
        /\ lastRes = NoResult
        /\ s = "none" => p = TeacherProfile
        /\ memberships[<<"t1", "u1">>] # Membership(s, p)
        /\ memberships' = [memberships EXCEPT ![<<"t1", "u1">>] = Membership(s, p)]
        /\ UNCHANGED <<redisUp, serverEV, jtiBlock, dbRevoked, guardVars, outsideBackend>>

ChangeOtherMembership ==
    \E s \in {"none", "active"} :
        /\ lastRes = NoResult
        /\ memberships[<<"t2", "u1">>].status # s
        /\ memberships' = [memberships EXCEPT ![<<"t2", "u1">>] = Membership(s, TeacherProfile)]
        /\ UNCHANGED <<redisUp, serverEV, jtiBlock, dbRevoked, guardVars, outsideBackend>>

(***************************************************************************)
(* Frontend ABAC helper: getAbacFilters(me, entity)                        *)
(***************************************************************************)
NoMe == [present |-> FALSE, tenantId |-> "-", memberships |-> <<>>]

\* attrs.roomIds / attrs.siteIds: a missing key is not an array; an array has
\* its elements.
Missing == [isArray |-> FALSE, items |-> {}]
Array(xs) == [isArray |-> TRUE, items |-> xs]
FrontMemberships ==
    [tenantId : Tenants, roles : SUBSET {"admin", "teacher"},
     roomIds : {Missing, Array({}), Array({"room-a"})},
     siteIds : {Missing, Array({}), Array({"site-1"})}]

\* /me/context as the helper reads it: active.tenantId ("-" when missing) and
\* the memberships array.
MeInputs ==
    {NoMe} \cup
    [present : {TRUE}, tenantId : Tenants \cup {"-"},
     memberships : {<<>>} \cup {<<m>> : m \in FrontMemberships}]

Entities == {"students", "staff", "attendance", "rooms"}

\* memberships.find(m => m.tenantId === tenantId): index of the first match, 0 if none.
FindMembership(ms, tenantId) ==
    IF \E i \in 1..Len(ms) : ms[i].tenantId = tenantId
    THEN CHOOSE i \in 1..Len(ms) :
            /\ ms[i].tenantId = tenantId
            /\ \A j \in 1..(i - 1) : ms[j].tenantId # tenantId
    ELSE 0

\* Array.isArray(a) && a.length
NonEmptyArray(a) == a.isArray /\ a.items # {}

\* The filters object: a function from the keys that are set to the values
\* each admits ({ tenantId } admits that one tenant, { $in: xs } admits xs).
OnlyTenant(tenantId) == [k \in {"tenantId"} |-> {tenantId}]
WithKey(f, key, val) == [k \in DOMAIN f \cup {key} |-> IF k = key THEN val ELSE f[k]]
EmptyFilters == [k \in {} |-> {}]

getAbacFilters(me, entity) ==
    IF ~me.present THEN [filters |-> EmptyFilters, unrestricted |-> FALSE]
    ELSE IF me.tenantId = "-" THEN [filters |-> EmptyFilters, unrestricted |-> FALSE]
    ELSE LET i == FindMembership(me.memberships, me.tenantId) IN
      IF i = 0 THEN [filters |-> EmptyFilters, unrestricted |-> FALSE]
      ELSE LET m == me.memberships[i]
               isAdmin == "owner" \in m.roles \/ "admin" \in m.roles
                          \/ "superadmin" \in m.roles
               base == OnlyTenant(me.tenantId)
           IN IF isAdmin THEN [filters |-> base, unrestricted |-> TRUE]
              ELSE [filters |->
                      CASE entity = "students" /\ NonEmptyArray(m.roomIds) ->
                              WithKey(base, "roomId", m.roomIds.items)
                        [] entity = "staff" /\ NonEmptyArray(m.siteIds) ->
                              WithKey(base, "siteId", m.siteIds.items)
                        [] entity = "attendance" /\ NonEmptyArray(m.roomIds) ->
                              WithKey(base, "roomId", m.roomIds.items)
                        [] OTHER -> base,
                    unrestricted |-> FALSE]

\* The rows a list query can return, and the rows a filters object selects:
\* a key that is not set puts no condition on its field.
Rows == [tenantId : Tenants, roomId : {"room-a", "room-b"}, siteId : {"site-1"}]

Selects(filters, row) ==
    /\ "tenantId" \in DOMAIN filters => row.tenantId \in filters["tenantId"]
    /\ "roomId" \in DOMAIN filters => row.roomId \in filters["roomId"]
    /\ "siteId" \in DOMAIN filters => row.siteId \in filters["siteId"]

ListQuery(filters) == {row \in Rows : Selects(filters, row)}

NoAbacCall == [me |-> NoMe, entity |-> "-"]
NoAbacResult == [filters |-> EmptyFilters, unrestricted |-> FALSE, rows |-> {}, called |-> FALSE]

AbacIdle ==
    /\ abacIn = NoAbacCall
    /\ abacOut = NoAbacResult

\* A page calls getAbacFilters and lists with the filters it got.
AbacCall ==
    \E me \in MeInputs, entity \in Entities :
        /\ ~abacOut.called
        /\ abacIn' = [me |-> me, entity |-> entity]
        /\ abacOut' = LET r == getAbacFilters(me, entity) IN
                      [filters |-> r.filters, unrestricted |-> r.unrestricted,
                       rows |-> ListQuery(r.filters), called |-> TRUE]
        /\ UNCHANGED outsideAbac

AbacDone ==
    /\ abacOut.called
    /\ abacIn' = NoAbacCall
    /\ abacOut' = NoAbacResult
    /\ UNCHANGED outsideAbac

(***************************************************************************)
(* Web client: lib/http.ts (request, ensureRefresh), lib/csrf.ts and       *)
(* MeProvider's reload on the auth:refreshed event.                        *)
(***************************************************************************)
CallIds == 1..MaxCalls
PromiseIds == 1..MaxRefreshes
NoPromise == 0

\* What a fetch() can end with: a Response (status, error.code of the
\* envelope) or a rejection (network failure).
Ok200 == [status |-> 200, code |-> ""]
NetworkError == [status |-> 0, code |-> "TypeError"]
CsrfThrow == [status |-> 0, code |-> "URIError"]
AbortError == [status |-> 0, code |-> "AbortError"]
NoResponse == [status |-> 0, code |-> "-"]
ErrorResponses ==
    { [status |-> 401, code |-> "EV_OUTDATED"],
      [status |-> 401, code |-> "EXPIRED"],
      [status |-> 403, code |-> "PERMISSION_DENIED"] }
FetchOutcomes == {Ok200, NetworkError} \cup ErrorResponses

\* Response.ok
ResOk(res) == res.status >= 200 /\ res.status <= 299

\* String.prototype.toUpperCase on the codes of the model.
toUpperCase(code) ==
    CASE code = "ev_expired" -> "EV_EXPIRED"
      [] code = "ev_outdated" -> "EV_OUTDATED"
      [] OTHER -> code

EV_CODES == {"EV_OUTDATED", "EV_EXPIRED"}
unsafeMethods == {"POST", "PUT", "PATCH", "DELETE"}
Methods == {"GET", "POST"}
CsrfCookieStates == {"present", "malformed"}
\* document.cookie with respect to kydo_csrf: no entry, the token set at the
\* exchange, a later token.
CsrfCookieValues == {"absent", "present", "rotated"}
AllMethods == {"GET"} \cup unsafeMethods

\* csrf.ts: csrfHeaderFor(method) -> buildCsrfHeader -> getCsrfToken ->
\* readCookie.  Safe methods return {} before the cookie is read; for unsafe
\* methods readCookie's decodeURIComponent throws on a malformed entry.
\* The result is the value of the X-CSRF header, "none" for {} (safe method,
\* or no kydo_csrf cookie), "throws" for the exception.
csrfHeaderForAnyMethod(method) ==
    IF csrfCookie = "malformed" THEN "throws"
    ELSE IF csrfCookie = "absent" THEN "none" ELSE csrfCookie
csrfHeaderFor(method) ==
    IF method \notin unsafeMethods THEN "none"
    ELSE IF csrfCookie = "malformed" THEN "throws"
    ELSE IF csrfCookie = "absent" THEN "none" ELSE csrfCookie

NoCall ==
    [pc |-> "free", origin |-> "-", method |-> "GET", noAutoRefresh |-> FALSE,
     retry |-> FALSE, tok |-> NoToken, first |-> NoResponse,
     waitsOn |-> NoPromise, sends |-> 0, awaits |-> 0, gen |-> 0,
     aborted |-> FALSE, csrf |-> "none", last |-> NoResponse,
     result |-> NoResponse]

NewCall(origin, method, noAutoRefresh, gen) ==
    [NoCall EXCEPT !.origin = origin, !.method = method,
                   !.noAutoRefresh = noAutoRefresh, !.gen = gen]

UnusedPromise == [state |-> "unused", gen |-> 0, csrf |-> "none"]
\* A settled promise nothing refers to any more.
CollectedPromise == [state |-> "collected", gen |-> 0, csrf |-> "none"]

\* An exception leaving request(): a re-sent request runs inside the try of
\* the call that re-sent it, whose catch throws the first response's error.
Thrown(call, err) ==
    [call EXCEPT !.pc = "done",
                 !.result = IF call.retry THEN call.first ELSE err]

\* request(), from its entry to the await of fetch(): the CSRF header is
\* computed (and may throw), then the request leaves with the cookies of the
\* moment; fetch() rejects at once when options.signal is already aborted.
requestSend(call, cookie) ==
    IF csrfHeaderFor(call.method) = "throws"
    THEN Thrown(call, CsrfThrow)
    ELSE IF call.aborted
    THEN Thrown(call, AbortError)
    ELSE [call EXCEPT !.pc = "fetching", !.sends = @ + 1, !.tok = cookie,
                      !.csrf = csrfHeaderFor(call.method)]

\* The condition under which request() refreshes and re-sends.
ShouldRefreshOnAnyError(res, call) ==
    /\ ~call.noAutoRefresh
    /\ ~call.retry

ShouldRefreshIgnoringRetry(res, call) ==
    /\ res.status = 401
    /\ toUpperCase(res.code) \in EV_CODES
    /\ ~call.noAutoRefresh

ShouldRefresh(res, call) ==
    /\ res.status = 401
    /\ toUpperCase(res.code) \in EV_CODES
    /\ ~call.noAutoRefresh
    /\ ~call.retry

FreshPromise ==
    CHOOSE p \in PromiseIds :
        /\ promises[p].state = "unused"
        /\ \A q \in PromiseIds : promises[q].state = "unused" => p <= q

\* The async body of ensureRefresh up to its first await: the POST leaves,
\* unless csrfHeaderFor("POST") throws; then the finally block runs before
\* the promise is stored, and the rejected promise stays in the slot.
StartRefresh(gen) ==
    LET p == FreshPromise IN
    [awaited |-> p,
     promises |-> [promises EXCEPT ![p] =
                    [state |-> IF csrfHeaderFor("POST") = "throws"
                               THEN "threw" ELSE "inflight",
                     gen |-> gen,
                     csrf |-> IF csrfHeaderFor("POST") = "throws"
                              THEN "none" ELSE csrfHeaderFor("POST")]],
     slot |-> p]

ensureRefreshUnshared(gen) == StartRefresh(gen)

ensureRefresh(gen) ==
    IF refreshPromise # NoPromise
    THEN [awaited |-> refreshPromise, promises |-> promises, slot |-> refreshPromise]
    ELSE StartRefresh(gen)

CanStartRefresh == \E p \in PromiseIds : promises[p].state = "unused"

FreeSlots == {c \in CallIds : calls[c].pc = "free"}
FreeSlot == CHOOSE c \in FreeSlots : \A d \in FreeSlots : c <= d

\* request(), from the fetch's outcome to its next await or its end.
requestSettle(c, res) ==
    /\ calls[c].pc = "fetching"
    /\ LET call == [calls[c] EXCEPT !.last = res, !.csrf = "none"] IN
       IF res = NetworkError
       THEN /\ calls' = [calls EXCEPT ![c] = Thrown(call, NetworkError)]
            /\ UNCHANGED <<promises, refreshPromise>>
       ELSE IF ResOk(res)
       THEN /\ calls' = [calls EXCEPT ![c] = [call EXCEPT !.pc = "done", !.result = res]]
            /\ UNCHANGED <<promises, refreshPromise>>
       ELSE IF ShouldRefresh(res, call)
       THEN /\ CanStartRefresh
            /\ LET r == ensureRefresh(call.gen + 1) IN
               /\ promises' = r.promises
               /\ refreshPromise' = r.slot
               /\ calls' = [calls EXCEPT ![c] =
                              [call EXCEPT !.pc = "refreshing", !.first = res,
                                           !.waitsOn = r.awaited, !.awaits = @ + 1]]
       ELSE /\ calls' = [calls EXCEPT ![c] = Thrown(call, res)]
            /\ UNCHANGED <<promises, refreshPromise>>
    /\ UNCHANGED <<csrfCookie, accessCookie>>

\* MeProvider: the auth:refreshed listener calls reload(), which calls
\* api.get("/me/context") with the default options.
reload(gen, cookie) == requestSend(NewCall("reload", "GET", FALSE, gen), cookie)

\* The rest of ensureRefresh's async body: the POST's outcome, the
\* auth:refreshed event (its listeners run inside dispatchEvent), and the
\* finally block that clears the slot.
refreshSettle(p, res, cookie) ==
    /\ promises[p].state = "inflight"
    /\ IF res # NetworkError /\ ResOk(res)
       THEN /\ FreeSlots # {}
            /\ calls' = [calls EXCEPT ![FreeSlot] = reload(promises[p].gen, cookie)]
            /\ promises' = [promises EXCEPT ![p].state = "fulfilled", ![p].csrf = "none"]
            /\ accessCookie' = cookie
       ELSE /\ promises' = [promises EXCEPT ![p].state = "rejected", ![p].csrf = "none"]
            /\ UNCHANGED <<calls, accessCookie>>
    /\ refreshPromise' = NoPromise
    /\ UNCHANGED csrfCookie

\* Promise p is still held by the slot or awaited by a call other than c.
Referenced(p, c) ==
    \/ refreshPromise = p
    \/ \E d \in CallIds \ {c} : calls[d].pc = "refreshing" /\ calls[d].waitsOn = p

\* request() after `await ensureRefresh()`: re-send with __retry, or throw
\* the first response's error.
requestResume(c) ==
    /\ calls[c].pc = "refreshing"
    /\ LET call == calls[c]
           st == promises[call.waitsOn].state IN
       /\ st \in {"fulfilled", "rejected", "threw"}
       /\ calls' = [calls EXCEPT ![c] =
                      IF st = "fulfilled"
                      THEN requestSend([call EXCEPT !.retry = TRUE, !.waitsOn = NoPromise],
                                       accessCookie)
                      ELSE [call EXCEPT !.pc = "done", !.result = call.first,
                                        !.waitsOn = NoPromise]]
       /\ promises' = IF Referenced(call.waitsOn, c)
                      THEN promises
                      ELSE [promises EXCEPT ![call.waitsOn] = CollectedPromise]
    /\ UNCHANGED <<refreshPromise, csrfCookie, accessCookie>>

HttpIdle ==
    /\ calls = [c \in CallIds |-> NoCall]
    /\ promises = [p \in PromiseIds |-> UnusedPromise]
    /\ refreshPromise = NoPromise
    /\ csrfCookie = "present"
    /\ accessCookie = NoToken

\* A call that ended is handed to its caller before anything else happens
\* (the caller's continuation runs in the same turn of the event loop).
NoneDone == \A c \in CallIds : calls[c].pc # "done"

\* ---- actions of the client against an arbitrary server ----

\* A page calls api.get / api.post.
AppRequest ==
    \E method \in Methods, noAutoRefresh \in BOOLEAN :
        /\ noAutoRefresh => method = "GET"
        /\ NoneDone
        /\ FreeSlots # {}
        /\ calls' = [calls EXCEPT ![FreeSlot] =
                       requestSend(NewCall("app", method, noAutoRefresh, 0), accessCookie)]
        /\ UNCHANGED <<promises, refreshPromise, csrfCookie, accessCookie>>
        /\ UNCHANGED outsideHttp

FetchResponse ==
    \E c \in CallIds, res \in FetchOutcomes :
        /\ NoneDone
        /\ requestSettle(c, res)
        /\ UNCHANGED outsideHttp

RefreshResponse ==
    \E p \in PromiseIds, res \in FetchOutcomes :
        /\ NoneDone
        /\ refreshSettle(p, res, accessCookie)
        /\ UNCHANGED outsideHttp

AfterRefresh ==
    \E c \in CallIds :
        /\ NoneDone
        /\ requestResume(c)
        /\ UNCHANGED outsideHttp

\* The caller has taken the call's result.
CallerDone ==
    \E c \in CallIds :
        /\ calls[c].pc = "done"
        /\ calls' = [calls EXCEPT ![c] = NoCall]
        /\ UNCHANGED <<promises, refreshPromise, csrfCookie, accessCookie>>
        /\ UNCHANGED outsideHttp

\* What aborting a call's signal does to the refreshes: the fetch inside
\* ensureRefresh is given no signal, so nothing.
refreshesAfterAbortLinked(c) ==
    [promises EXCEPT ![calls[c].waitsOn].state = "rejected"]
refreshesAfterAbort(c) == promises

\* The page aborts the AbortSignal it passed in the options of a call.  A
\* pending fetch rejects with AbortError; a call awaiting ensureRefresh()
\* goes on awaiting it.
Abort ==
    \E c \in CallIds :
        /\ NoneDone
        /\ calls[c].origin = "app"
        /\ ~calls[c].aborted
        /\ \/ /\ calls[c].pc = "fetching"
              /\ calls' = [calls EXCEPT ![c] =
                             Thrown([@ EXCEPT !.aborted = TRUE, !.last = AbortError],
                                    AbortError)]
              /\ UNCHANGED promises
           \/ /\ calls[c].pc = "refreshing"
              /\ calls' = [calls EXCEPT ![c].aborted = TRUE]
              /\ promises' = refreshesAfterAbort(c)
        /\ UNCHANGED <<refreshPromise, csrfCookie, accessCookie>>
        /\ UNCHANGED outsideHttp

\* A page calls fetchJson(input, init) or postJson and gets the raw
\* Response: the same header rule, nothing is refreshed or re-sent.
FetchJsonCall ==
    \E method \in AllMethods, res \in {Ok200, NetworkError} :
        /\ NoneDone
        /\ FreeSlots # {}
        /\ calls' = [calls EXCEPT ![FreeSlot] =
                       LET sent == requestSend(NewCall("fetchJson", method, TRUE, 0),
                                               accessCookie)
                       IN IF sent.pc = "fetching"
                          THEN [sent EXCEPT !.pc = "done", !.last = res, !.result = res]
                          ELSE sent]
        /\ UNCHANGED <<promises, refreshPromise, csrfCookie, accessCookie>>
        /\ UNCHANGED outsideHttp

\* Set-Cookie on an auth response, sign-out, or another script: the
\* kydo_csrf entry appears, changes or goes.
CsrfCookieChange ==
    \E v \in CsrfCookieValues \ {csrfCookie} :
        /\ NoneDone
        /\ csrfCookie' = v
        /\ UNCHANGED <<calls, promises, refreshPromise, accessCookie>>
        /\ UNCHANGED outsideHttp

\* document.cookie changes (Set-Cookie, another script, expiry).
CookieChange ==
    \E v \in CsrfCookieStates \ {csrfCookie} :
        /\ NoneDone
        /\ csrfCookie' = v
        /\ UNCHANGED <<calls, promises, refreshPromise, accessCookie>>
        /\ UNCHANGED outsideHttp

(***************************************************************************)
(* A web session: the client above against the guard chain.  The browser   *)
(* holds a session token; a protected route answers what the guard chain   *)
(* decides; POST /auth/refresh re-issues the cookies with the current EV.   *)
(***************************************************************************)
SessionKey == <<"t1", "u1">>
\* Entitlement versions of the session: issued at 5, bumped from there.
ScenarioEVs == 5..(5 + MaxEV)
StartEV == CHOOSE e \in ScenarioEVs : \A f \in ScenarioEVs : e <= f

\* Error envelope of a guard verdict: HTTP status and error.code.
HttpOf(verdict) ==
    CASE verdict = "AUTHORIZED" -> Ok200
      [] verdict = "PERMISSION_DENIED" -> [status |-> 403, code |-> verdict]
      [] OTHER -> [status |-> 401, code |-> verdict]

\* The protected route the page calls, as the server sees the request.
ProtectedRequest(tok) ==
    [tok |-> tok, clientTid |-> tok.tid,
     route |-> [requires |-> {"students.list_room"}, mode |-> "all"]]

ServerAnswer(tok) == HttpOf(Guard(ProtectedRequest(tok)).verdict)

\* POST /auth/refresh: rotates the jti and re-issues the token with the
\* server's current EV.
RotateKeepsEV(tok) ==
    [tok EXCEPT !.jti = CHOOSE j \in Jtis : j # tok.jti]
Rotate(tok) ==
    [tok EXCEPT !.ev = serverEV[<<tok.tid, tok.sub>>],
                !.jti = CHOOSE j \in Jtis : j # tok.jti]

SessionInit ==
    /\ redisUp = TRUE
    /\ serverEV = [k \in Tenants \X Users |-> StartEV]
    /\ jtiBlock = {}
    /\ memberships = [k \in Tenants \X Users |-> Membership("active", TeacherProfile)]
    /\ dbRevoked = {}
    /\ calls = [c \in CallIds |-> NoCall]
    /\ promises = [p \in PromiseIds |-> UnusedPromise]
    /\ refreshPromise = NoPromise
    /\ csrfCookie = "present"
    /\ accessCookie = [state |-> "ok", sub |-> "u1", tid |-> "t1", ev |-> StartEV, jti |-> "j1"]

\* The server answers a request of the session.
SessionAnswer ==
    \E c \in CallIds :
        /\ NoneDone
        /\ requestSettle(c, ServerAnswer(calls[c].tok))
        /\ UNCHANGED outsideHttp

\* The server answers POST /auth/refresh.
SessionRefresh ==
    \E p \in PromiseIds :
        /\ NoneDone
        /\ refreshSettle(p, Ok200, Rotate(accessCookie))
        /\ UNCHANGED outsideHttp

\* An administrator changes the user's roles: the EV of (t1, u1) is bumped.
SessionBumpEV ==
    /\ NoneDone
    /\ serverEV[SessionKey] + 1 \in ScenarioEVs
    /\ serverEV' = [serverEV EXCEPT ![SessionKey] = @ + 1]
    /\ UNCHANGED <<redisUp, jtiBlock, memberships, dbRevoked, guardVars, abacVars, httpVars, permVars, rotationVars, resolverVars, aclVars, gateVars, meVars, routeVars>>

(***************************************************************************)
(* Permission cache: getOrCompute(tenantId, userId, computeFn) with         *)
(* single-flight recomputation per (tenantId, userId).                     *)
(***************************************************************************)
Keys == Tenants \X Users
CallerIds == 1..MaxCallers
ComputationIds == 1..MaxComputations
NoComputation == 0

NoPermset == [present |-> FALSE, permissions |-> {}]
IdleCaller == [pc |-> "idle", key |-> SessionKey, comp |-> NoComputation,
               result |-> {}, how |-> "-"]
UnusedComputation == [state |-> "unused", key |-> SessionKey, result |-> {}]

\* computeFn: the Membership/Role Resolver reads the membership and flattens
\* its roles' permissions; no active membership gives no permissions.
ResolvePermissions(key) ==
    IF memberships[key].status = "active"
    THEN FlattenPermissions(memberships[key].roles)
    ELSE {}

\* The computation a miss for this key has to wait for, if any.
InFlightForNone(key) == NoComputation
InFlightFor(key) == inflight[key]

UnusedComputations == {i \in ComputationIds : computations[i].state = "unused"}
FreshComputation == CHOOSE i \in UnusedComputations : \A j \in UnusedComputations : i <= j

PermCacheIdle ==
    /\ permset = [k \in Keys |-> NoPermset]
    /\ inflight = [k \in Keys |-> NoComputation]
    /\ computations = [i \in ComputationIds |-> UnusedComputation]
    /\ callers = [c \in CallerIds |-> IdleCaller]

\* A guard run asks for the permission set of a key: a hit answers at once;
\* a miss waits for the computation in flight for the key, or starts one.
GetOrCompute ==
    \E c \in CallerIds, key \in Keys :
        /\ callers[c].pc = "idle"
        /\ IF permset[key].present
           THEN /\ callers' = [callers EXCEPT ![c] =
                                 [pc |-> "done", key |-> key, comp |-> NoComputation,
                                  result |-> permset[key].permissions, how |-> "hit"]]
                /\ UNCHANGED <<inflight, computations>>
           ELSE IF InFlightFor(key) # NoComputation
           THEN /\ callers' = [callers EXCEPT ![c] =
                                 [pc |-> "waiting", key |-> key, comp |-> InFlightFor(key),
                                  result |-> {}, how |-> "joined"]]
                /\ UNCHANGED <<inflight, computations>>
           ELSE /\ UnusedComputations # {}
                /\ computations' = [computations EXCEPT ![FreshComputation] =
                                      [state |-> "running", key |-> key, result |-> {}]]
                /\ inflight' = [inflight EXCEPT ![key] = FreshComputation]
                /\ callers' = [callers EXCEPT ![c] =
                                 [pc |-> "waiting", key |-> key, comp |-> FreshComputation,
                                  result |-> {}, how |-> "started"]]
        /\ UNCHANGED <<permset, memberships, outsidePermCache>>

\* The resolver call returns: the result is cached, the key leaves the
\* coordination map.
ResolverReturns ==
    \E i \in ComputationIds :
        /\ computations[i].state = "running"
        /\ LET key == computations[i].key
               perms == ResolvePermissions(key)
           IN /\ computations' = [computations EXCEPT ![i].state = "done", ![i].result = perms]
              /\ permset' = [permset EXCEPT ![key] = [present |-> TRUE, permissions |-> perms]]
              /\ inflight' = [inflight EXCEPT ![key] = IF @ = i THEN NoComputation ELSE @]
        /\ UNCHANGED <<callers, memberships, outsidePermCache>>

\* A waiter receives the result of the computation it waited for.
WaiterReceives ==
    \E c \in CallerIds :
        /\ callers[c].pc = "waiting"
        /\ computations[callers[c].comp].state = "done"
        /\ callers' = [callers EXCEPT ![c].pc = "done",
                                      ![c].result = computations[callers[c].comp].result]
        /\ UNCHANGED <<permset, inflight, computations, memberships, outsidePermCache>>

\* The guard run goes on with its permission set; a computation nobody
\* refers to any more is forgotten.
CallerReturns ==
    \E c \in CallerIds :
        /\ callers[c].pc = "done"
        /\ callers' = [callers EXCEPT ![c] = IdleCaller]
        /\ computations' =
              [i \in ComputationIds |->
                 IF /\ computations[i].state = "done"
                    /\ \A d \in CallerIds \ {c} : callers[d].comp # i
                 THEN UnusedComputation
                 ELSE computations[i]]
        /\ UNCHANGED <<permset, inflight, memberships, outsidePermCache>>

\* The TTL of a cached permission set runs out.
PermsetExpires ==
    \E key \in Keys :
        /\ permset[key].present
        /\ permset' = [permset EXCEPT ![key] = NoPermset]
        /\ UNCHANGED <<inflight, computations, callers, memberships, outsidePermCache>>

\* The user's roles in t1 change while guard runs are in progress.
RolesChange ==
    \E p \in Profiles :
        /\ memberships[SessionKey].roles # p.roles
        /\ memberships' = [memberships EXCEPT ![SessionKey] = Membership("active", p)]
        /\ UNCHANGED <<permVars, outsidePermCache>>

(***************************************************************************)
(* Refresh sessions: POST /auth/refresh rotates the JTI; reuse of an old   *)
(* refresh revokes the family (blocklist) and requires re-login.           *)
(***************************************************************************)
NoRefresh == [presented |-> "-", was |-> "-", outcome |-> "none", issued |-> "-"]

\* The session family of (t1, u1): every jti issued for it so far.
Family == {j \in Jtis : sessions[j] # "unused"}
UnusedJtis == {j \in Jtis : sessions[j] = "unused"}

\* RefreshSessionRepo.rotate: the presented session is retired and a new jti
\* becomes the active one.
rotate(j, new) == [sessions EXCEPT ![j] = "rotated", ![new] = "active"]

\* RefreshSessionRepo.revoke_all
revoke_reused_only(j) == [sessions EXCEPT ![j] = "revoked"]
revoke_all(j) == [k \in Jtis |-> IF sessions[k] = "unused" THEN "unused" ELSE "revoked"]

RotationIdle ==
    /\ sessions = [j \in Jtis |-> IF j = "j1" THEN "active" ELSE "unused"]
    /\ refreshLog = NoRefresh

\* POST /auth/refresh presenting the refresh token of jti j.
AuthRefresh ==
    \E j \in Jtis :
        /\ lastRes = NoResult
        /\ CASE sessions[j] = "active" ->
                  \* validate & rotate (also while Redis is unavailable)
                  /\ UnusedJtis # {}
                  /\ \E new \in UnusedJtis :
                        /\ sessions' = rotate(j, new)
                        /\ refreshLog' = [presented |-> j, was |-> "active",
                                          outcome |-> "rotated", issued |-> new]
                  /\ UNCHANGED jtiBlock
             [] sessions[j] = "rotated" /\ redisUp ->
                  \* reuse of an old refresh: deny, revoke family (blocklist)
                  /\ sessions' = revoke_all(j)
                  /\ jtiBlock' = jtiBlock \cup Family
                  /\ refreshLog' = [presented |-> j, was |-> "rotated",
                                    outcome |-> "REFRESH_REUSE", issued |-> "-"]
             [] sessions[j] = "rotated" /\ ~redisUp ->
                  \* the blocklist write cannot be guaranteed: fail closed
                  /\ refreshLog' = [presented |-> j, was |-> "rotated",
                                    outcome |-> "DEPENDENCY_UNAVAILABLE", issued |-> "-"]
                  /\ UNCHANGED <<sessions, jtiBlock>>
             [] OTHER ->
                  \* unknown or revoked session: 401
                  /\ refreshLog' = [presented |-> j, was |-> sessions[j],
                                    outcome |-> "UNAUTHENTICATED", issued |-> "-"]
                  /\ UNCHANGED <<sessions, jtiBlock>>
        /\ UNCHANGED <<redisUp, serverEV, memberships, dbRevoked, guardVars, outsideRotation>>

(***************************************************************************)
(* Membership/Role Resolver: the permissions of one membership as its      *)
(* roles are edited.                                                       *)
(***************************************************************************)
\* Role names a membership can list; billing_manager holds none of the
\* students.* permissions.
AssignableRoles == RoleNames \cup {"assistant", "billing_manager"}
NotResolved == [resolved |-> FALSE, permissions |-> {}]
NoEarlier == [known |-> FALSE, roles |-> {}, permissions |-> {}]

Resolved(roles) == [resolved |-> TRUE, permissions |-> FlattenPermissions(roles)]

ResolverIdle ==
    /\ memberRoles = {}
    /\ flattened = NotResolved
    /\ flattenedBefore = NoEarlier

ResolverInit ==
    /\ memberRoles \in SUBSET AssignableRoles
    /\ flattened = NotResolved
    /\ flattenedBefore = NoEarlier

\* The guard loads the membership's roles and flattens their permissions.
Resolve ==
    /\ ~flattened.resolved
    /\ flattened' = Resolved(memberRoles)
    /\ UNCHANGED <<memberRoles, flattenedBefore, outsideResolver>>

\* Role editor: a role is added to the membership; the next guard run
\* resolves the new list.
GrantRole ==
    \E r \in AssignableRoles \ memberRoles :
        /\ flattened.resolved
        /\ flattenedBefore' = [known |-> TRUE, roles |-> memberRoles,
                               permissions |-> flattened.permissions]
        /\ memberRoles' = memberRoles \cup {r}
        /\ flattened' = Resolved(memberRoles \cup {r})
        /\ UNCHANGED outsideResolver

\* Role editor: a role is taken from the membership.
RevokeRole ==
    \E r \in memberRoles :
        /\ flattened.resolved
        /\ flattenedBefore' = [known |-> TRUE, roles |-> memberRoles,
                               permissions |-> flattened.permissions]
        /\ memberRoles' = memberRoles \ {r}
        /\ flattened' = Resolved(memberRoles \ {r})
        /\ UNCHANGED outsideResolver

(***************************************************************************)
(* UI gating on the /me/context payload: lib/acl.ts (allowPage,            *)
(* allowAction) and the helpers of the same names that MeProvider exposes. *)
(***************************************************************************)
\* Strings of the payload: two permission codes, a code with a leading
\* blank, and the empty string.
PermissionCodes == {"students.view", "students.create"}

\* String.prototype.trim on the strings of the model.
trim(str) == IF str = " students.view" THEN "students.view" ELSE str

\* requires: undefined, null, or an array.
RequiresMissing == [kind |-> "undefined", items |-> {}]
RequiresNull == [kind |-> "null", items |-> {}]
RequiresArray(xs) == [kind |-> "array", items |-> xs]
RequiresInputs ==
    {RequiresMissing, RequiresNull} \cup
    {RequiresArray(xs) : xs \in {{}, {"students.view"}, PermissionCodes,
                                 {" students.view"}, {""}}}

\* ui_resources.pages / ui_resources.actions: no entry, or the one entry of
\* the "students" page (the "students.create" action).
UiEntries(id) == {{}} \cup {{[id |-> id, requires |-> r]} : r \in RequiresInputs}
NoPayload == [present |-> FALSE, permissions |-> {}, pages |-> {}, actions |-> {}]
MePayloads ==
    {NoPayload} \cup
    [present : {TRUE},
     permissions : {{}, {"students.view"}, PermissionCodes, {" students.view"}},
     pages : UiEntries("students"),
     actions : UiEntries("students.create")]
AskedIds == {"students", "students.create", "staff", ""}

\* acl.ts normalizeRequires: non-blank trimmed entries, null when none is left.
normalizeRequires(req) ==
    IF req.kind # "array" THEN RequiresNull
    ELSE LET cleaned == {trim(x) : x \in req.items} \ {""} IN
         IF cleaned # {} THEN RequiresArray(cleaned) ELSE RequiresNull

\* acl.ts getEffectivePermissions: the entries with a non-blank trim, as they are.
getEffectivePermissions(me) ==
    IF ~me.present THEN {} ELSE {p \in me.permissions : trim(p) # ""}

\* acl.ts getUIPages / getUIActions
getUIEntries(entries) ==
    {[id |-> x.id, requires |-> normalizeRequires(x.requires)] :
        x \in {y \in entries : trim(y.id) # ""}}

\* acl.ts requireAll(have, need)
requireAllAnyOf(have, need) ==
    IF need.kind # "array" \/ need.items = {} THEN TRUE
    ELSE need.items \cap have # {}
requireAll(have, need) ==
    IF need.kind # "array" \/ need.items = {} THEN TRUE
    ELSE need.items \subseteq have

\* acl.ts allowPage(me, pageId) / allowAction(me, actionId) on the entries
\* of their kind.
allowEntry(me, entries, id) ==
    IF id = "" THEN FALSE
    ELSE LET found == {x \in getUIEntries(entries) : x.id = id} IN
         IF found = {} THEN FALSE
         ELSE \A x \in found : requireAll(getEffectivePermissions(me), x.requires)

EntriesOf(me, kind) == IF kind = "page" THEN me.pages ELSE me.actions

\* MeContext.tsx asSet: trimmed entries, blanks dropped.
asSet(arr) == {trim(x) : x \in arr} \ {""}

\* MeContext.tsx requiresAllowed(requires, granted)
requiresAllowed(requires, granted) ==
    IF requires.kind # "array" \/ requires.items = {} THEN TRUE
    ELSE requires.items \subseteq granted

\* MeContext.tsx allowPage(pageId) / allowAction(actionId): indexById, then
\* requiresAllowed on the entry found.
contextAllow(me, entries, id) ==
    LET def == {x \in entries : x.id # "" /\ x.id = id} IN
    IF ~me.present \/ def = {} THEN FALSE
    ELSE \A x \in def : requiresAllowed(x.requires, asSet(me.permissions))

NoAclCall == [me |-> NoPayload, kind |-> "-", id |-> "-"]
NoAclResult == [called |-> FALSE, acl |-> FALSE, context |-> FALSE]

AclIdle ==
    /\ aclIn = NoAclCall
    /\ aclOut = NoAclResult

\* A menu, route or button asks whether a page or action is allowed.
AclCall ==
    \E me \in MePayloads, kind \in {"page", "action"}, id \in AskedIds :
        /\ ~aclOut.called
        /\ aclIn' = [me |-> me, kind |-> kind, id |-> id]
        /\ aclOut' = [called |-> TRUE,
                      acl |-> allowEntry(me, EntriesOf(me, kind), id),
                      context |-> contextAllow(me, EntriesOf(me, kind), id)]
        /\ UNCHANGED outsideAcl

AclDone ==
    /\ aclOut.called
    /\ aclIn' = NoAclCall
    /\ aclOut' = NoAclResult
    /\ UNCHANGED outsideAcl

(***************************************************************************)
(* Gates: guard() and RequirePerms for routes, the two Acl components for  *)
(* controls.                                                               *)
(***************************************************************************)
\* acl.ts requireAny(have, need)
requireAny(have, need) ==
    IF need.kind # "array" \/ need.items = {} THEN TRUE
    ELSE need.items \cap have # {}

\* A permission list prop: left out, or an array.
RuleLists ==
    {RequiresMissing} \cup
    {RequiresArray(xs) : xs \in {{}, {"students.view"}, PermissionCodes}}

\* perm of components/access/Acl.tsx may also be a single string.
PermString(x) == [kind |-> "string", items |-> {x}]

\* What useMe() gives a gate: loading, error and the payload.
GatePayloads ==
    {NoPayload} \cup
    [present : {TRUE},
     permissions : SUBSET PermissionCodes,
     pages : {{}, {[id |-> "students", requires |-> RequiresArray({"students.view"})]}},
     actions : {{}, {[id |-> "students.create",
                      requires |-> RequiresArray({"students.create"})]}}]
GateContexts == [loading : BOOLEAN, error : BOOLEAN, me : GatePayloads]

\* The props of a gate; a prop that was left out is RequiresMissing or "".
\* For components/access/Acl.tsx, requires / pageId / actionId hold its
\* perm / page / action.
NoProps ==
    [allOf |-> RequiresMissing, anyOf |-> RequiresMissing, pageId |-> "",
     actionId |-> "", requires |-> RequiresMissing, mode |-> "all"]
RouteProps ==
    {[NoProps EXCEPT !.allOf = a, !.anyOf = b] : a \in RuleLists, b \in RuleLists}
AclProps ==
    {[NoProps EXCEPT !.pageId = pg, !.actionId = ac, !.requires = r, !.mode = m] :
        pg \in {"", "students"}, ac \in {"", "students.create", "staff.create"},
        r \in RuleLists \cup {RequiresNull}, m \in {"all", "any"}}
AccessAclProps ==
    {[NoProps EXCEPT !.pageId = pg, !.actionId = ac, !.requires = r, !.mode = m] :
        pg \in {"", "students"}, ac \in {"", "students.create"},
        r \in RuleLists \cup {PermString("students.view")}, m \in {"all", "any"}}

\* ErrorBoundary.tsx evaluate(me, {allOf, anyOf})
evaluateVacuous(me, allOf, anyOf) ==
    LET have == me.permissions IN
    IF allOf.items # {} /\ ~(allOf.items \subseteq have) THEN FALSE
    ELSE IF anyOf.items # {} /\ anyOf.items \cap have = {} THEN FALSE
    ELSE TRUE
evaluate(me, allOf, anyOf) ==
    LET have == me.permissions IN
    IF allOf.items # {} /\ ~(allOf.items \subseteq have) THEN FALSE
    ELSE IF anyOf.items # {} /\ anyOf.items \cap have = {} THEN FALSE
    ELSE IF allOf.items = {} /\ anyOf.items = {} THEN FALSE
    ELSE TRUE

\* RequirePerms: skeleton while loading, AccessDenied (or the fallback) on
\* error, missing context or a failed evaluation.
RequirePerms(ctx, props) ==
    IF ctx.loading THEN "loading"
    ELSE IF ctx.error \/ ~ctx.me.present THEN "fallback"
    ELSE IF ~evaluate(ctx.me, props.allOf, props.anyOf) THEN "fallback"
    ELSE "children"

\* guard(element, opts): AccessDenied when no rule is declared, otherwise
\* the element inside RequirePerms.
guard(ctx, props) ==
    IF props.allOf.items = {} /\ props.anyOf.items = {} THEN "fallback"
    ELSE RequirePerms(ctx, props)

\* components/acl/Acl.tsx decide(me, opts): page, else action, else requires.
decide(me, opts) ==
    IF ~me.present THEN FALSE
    ELSE IF opts.pageId # "" THEN allowEntry(me, me.pages, opts.pageId)
    ELSE IF opts.actionId # "" THEN allowEntry(me, me.actions, opts.actionId)
    ELSE IF opts.requires.kind = "array" /\ opts.requires.items # {}
        THEN IF opts.mode = "any"
             THEN requireAny(getEffectivePermissions(me), opts.requires)
             ELSE requireAll(getEffectivePermissions(me), opts.requires)
    ELSE FALSE

\* components/acl/Acl.tsx: reads me only, never loading.
Acl(ctx, props) == IF decide(ctx.me, props) THEN "children" ELSE "fallback"

\* components/access/Acl.tsx evaluateAccess(opts, api): every check that
\* is given must pass.
evaluateAccess(me, opts) ==
    LET granted == asSet(me.permissions)
        permOk == CASE opts.requires.kind = "string" -> opts.requires.items \subseteq granted
                    [] opts.requires.kind = "array" /\ opts.requires.items # {} ->
                          IF opts.mode = "any" THEN opts.requires.items \cap granted # {}
                          ELSE opts.requires.items \subseteq granted
                    [] OTHER -> TRUE
    IN  /\ permOk
        /\ opts.pageId # "" => contextAllow(me, me.pages, opts.pageId)
        /\ opts.actionId # "" => contextAllow(me, me.actions, opts.actionId)

\* components/access/Acl.tsx
AccessAcl(ctx, props) ==
    IF ctx.loading THEN "loading"
    ELSE IF ~ctx.me.present THEN "fallback"
    ELSE IF evaluateAccess(ctx.me, props) THEN "children" ELSE "fallback"

Gates == {"guard", "RequirePerms", "Acl", "AccessAcl"}
PropsOf(gate) ==
    CASE gate \in {"guard", "RequirePerms"} -> RouteProps
      [] gate = "Acl" -> AclProps
      [] OTHER -> AccessAclProps
Rendered(gate, ctx, props) ==
    CASE gate = "guard" -> guard(ctx, props)
      [] gate = "RequirePerms" -> RequirePerms(ctx, props)
      [] gate = "Acl" -> Acl(ctx, props)
      [] OTHER -> AccessAcl(ctx, props)

NoGate == [gate |-> "-", ctx |-> [loading |-> FALSE, error |-> FALSE, me |-> NoPayload],
           props |-> NoProps]

GateIdle ==
    /\ gateIn = NoGate
    /\ gateOut = "-"

\* React renders a gate with its props under the current context.
GateRender ==
    \E gate \in Gates, ctx \in GateContexts :
      \E props \in PropsOf(gate) :
        /\ gateOut = "-"
        /\ gateIn' = [gate |-> gate, ctx |-> ctx, props |-> props]
        /\ gateOut' = Rendered(gate, ctx, props)
        /\ UNCHANGED outsideGate

GateUnmount ==
    /\ gateOut # "-"
    /\ gateIn' = NoGate
    /\ gateOut' = "-"
    /\ UNCHANGED outsideGate

(***************************************************************************)
(* MeProvider (context/MeContext.tsx), RequireAuth and TenantSwitcher.     *)
(***************************************************************************)
\* useState initial values of MeProvider: me null, loading false, no error.
MeMounted == [me |-> "null", loading |-> FALSE, error |-> FALSE]

\* TenantSwitcher before any change: not busy, onSwitched not called.
SwitcherIdle == [pc |-> "idle", busy |-> FALSE, error |-> FALSE, next |-> "-", called |-> FALSE]

MeIdle ==
    /\ meState = MeMounted
    /\ loads = <<>>
    /\ mountEffect = "pending"
    /\ switcher = SwitcherIdle
    /\ activeTenant = "t1"

InFlightLoads == {i \in DOMAIN loads : loads[i].status = "inflight"}

\* reload(): setLoading(true); setError(null); api.get("/me/context") is
\* sent. The response will describe the tenant active at the server now.
MeReload(tenant) ==
    /\ Len(loads) < MaxLoads
    /\ meState' = [meState EXCEPT !.loading = TRUE, !.error = FALSE]
    /\ loads' = Append(loads, [status |-> "inflight", tenant |-> tenant, result |-> "-"])

\* The rest of reload() when its request settles: setMe(dto) or setMe(null)
\* with the error, and setLoading(false) in both branches.
MeSettled(i, ok) ==
    /\ loads' = [loads EXCEPT ![i].status = "done",
                              ![i].result = IF ok THEN loads[i].tenant ELSE "null"]
    /\ meState' = IF ok
                  THEN [meState EXCEPT !.me = loads[i].tenant, !.loading = FALSE]
                  ELSE [me |-> "null", loading |-> FALSE, error |-> TRUE]

\* RequireAuth with no perm / page / action: spinner while loading, Navigate
\* to the login path without a context, the children otherwise.
RequireAuth ==
    IF meState.loading THEN "loading"
    ELSE IF meState.me = "null" THEN "redirect"
    ELSE "children"

\* waitForAuthRefreshed resolved (by the event or by its timer): the rest
\* of handleChange calls onSwitched and, in finally, setBusy(false).
SwitcherResumed == [switcher EXCEPT !.pc = "idle", !.busy = FALSE, !.called = TRUE]

\* The effects of MeProvider after its first render: the initial reload and
\* the auth:refreshed listener.
MeMountEffect ==
    /\ mountEffect = "pending"
    /\ mountEffect' = "ran"
    /\ MeReload(activeTenant)
    /\ UNCHANGED <<switcher, activeTenant>>
    /\ UNCHANGED outsideMe

\* A /me/context request of MeProvider settles; requests settle in any order.
LoadCompletes ==
    \E i \in InFlightLoads, ok \in BOOLEAN :
        /\ MeSettled(i, ok)
        /\ UNCHANGED <<mountEffect, switcher, activeTenant>>
        /\ UNCHANGED outsideMe

\* auth:refreshed dispatched by a silent refresh (http.ts) or a login:
\* MeProvider reloads, and a pending waitForAuthRefreshed resolves.
AuthRefreshedEvent ==
    /\ mountEffect = "ran"
    /\ MeReload(activeTenant)
    /\ switcher' = IF switcher.pc = "waiting" THEN SwitcherResumed ELSE switcher
    /\ UNCHANGED <<mountEffect, activeTenant>>
    /\ UNCHANGED outsideMe

\* TenantSwitcher handleChange(nextTenantId) up to the POST /auth/switch.
HandleChange ==
    \E next \in Tenants :
        /\ switcher.pc = "idle"
        /\ ~meState.loading
        /\ meState.me # "null"
        /\ next # meState.me
        /\ switcher' = [pc |-> "posting", busy |-> TRUE, error |-> FALSE,
                        next |-> next, called |-> FALSE]
        /\ UNCHANGED <<meState, loads, mountEffect, activeTenant>>
        /\ UNCHANGED outsideMe

\* POST /auth/switch answers. On success Auth.switchTenant emits auth:switch
\* and auth:refreshed before it returns (MeProvider starts its reload), and
\* only then handleChange calls waitForAuthRefreshed(5000).
SwitchResponse ==
    \E ok \in BOOLEAN :
        /\ switcher.pc = "posting"
        /\ IF ok
           THEN /\ activeTenant' = switcher.next
                /\ MeReload(switcher.next)
                /\ switcher' = [switcher EXCEPT !.pc = "waiting"]
           ELSE /\ switcher' = [switcher EXCEPT !.pc = "idle", !.busy = FALSE, !.error = TRUE]
                /\ UNCHANGED <<meState, loads, activeTenant>>
        /\ UNCHANGED mountEffect
        /\ UNCHANGED outsideMe

\* The setTimeout of waitForAuthRefreshed fires.
WaitTimeout ==
    /\ switcher.pc = "waiting"
    /\ switcher' = SwitcherResumed
    /\ UNCHANGED <<meState, loads, mountEffect, activeTenant>>
    /\ UNCHANGED outsideMe

(***************************************************************************)
(* ProtectedRoute with its module-level ME_CACHE, and AuthProvider         *)
(* (context/AuthContext.tsx).                                              *)
(***************************************************************************)
\* ME_CACHE: null, or the last check's result; fresh while younger than
\* CACHE_TTL.
NoCache == [set |-> FALSE, ok |-> FALSE, fresh |-> FALSE]
Cached(ok) == [set |-> TRUE, ok |-> ok, fresh |-> TRUE]

\* ProtectedRoute useCache()
useCache == ME_CACHE.set /\ ME_CACHE.fresh /\ ME_CACHE.ok

\* AuthProvider's useState values: me null, loading true, no error.
AuthMounted == [me |-> {}, present |-> FALSE, loading |-> TRUE, error |-> FALSE]

\* Outcomes of AuthProvider's api.get("/me/context"), by error code.
LoadCodes == {"OK", "EXPIRED", "EV_OUTDATED", "PERMISSION_DENIED", "RATE_LIMITED"}

\* The context the server returns for the session's user.
LoadedPermissions == {"students.view"}

\* AuthProvider hasPerm(requires) for a list of requirements.
hasPerm(requires) ==
    IF ~authState.present THEN FALSE
    ELSE IF requires = {} THEN TRUE
    ELSE requires \subseteq authState.me

\* loadContext() from the response on: setMe(ctx), or the catch block,
\* which clears me for EXPIRED and EV_OUTDATED only; finally setLoading(false).
loadContextSettled(code) ==
    IF code = "OK"
    THEN [authState EXCEPT !.me = LoadedPermissions, !.present = TRUE, !.loading = FALSE]
    ELSE IF code \in {"EXPIRED", "EV_OUTDATED"}
    THEN [me |-> {}, present |-> FALSE, loading |-> FALSE, error |-> TRUE]
    ELSE [authState EXCEPT !.loading = FALSE, !.error = TRUE]

RouteIdle ==
    /\ routeStatus = "unmounted"
    /\ ME_CACHE = NoCache
    /\ sessionActive = TRUE
    /\ authState = AuthMounted
    /\ authLoad = [status |-> "idle", code |-> "-"]

\* ProtectedRoute mounts: run() allows at once on a fresh successful cache
\* entry, otherwise GET /me/context is sent and the loader is shown.
RouteMount ==
    /\ routeStatus = "unmounted"
    /\ routeStatus' = IF useCache THEN "allowed" ELSE "checking"
    /\ UNCHANGED <<ME_CACHE, sessionActive, authState, authLoad>>
    /\ UNCHANGED outsideRoute

\* The check's GET /me/context settles: 200 while the session is active
\* (or a network failure), 401 after it ended.
RouteCheckSettles ==
    \E ok \in BOOLEAN :
        /\ routeStatus = "checking"
        /\ ok => sessionActive
        /\ ME_CACHE' = Cached(ok)
        /\ routeStatus' = IF ok THEN "allowed" ELSE "denied"
        /\ UNCHANGED <<sessionActive, authState, authLoad>>
        /\ UNCHANGED outsideRoute

\* The route unmounts (navigation; after goLogin for a denied check). The
\* cleanup aborts a check in flight, whose catch block records a failure.
RouteUnmount ==
    /\ routeStatus # "unmounted"
    /\ routeStatus' = "unmounted"
    /\ ME_CACHE' = IF routeStatus = "checking" THEN Cached(FALSE) ELSE ME_CACHE
    /\ UNCHANGED <<sessionActive, authState, authLoad>>
    /\ UNCHANGED outsideRoute

\* CACHE_TTL milliseconds have passed since the entry was written.
CacheExpires ==
    /\ ME_CACHE.fresh
    /\ ME_CACHE' = [ME_CACHE EXCEPT !.fresh = FALSE]
    /\ UNCHANGED <<routeStatus, sessionActive, authState, authLoad>>
    /\ UNCHANGED outsideRoute

\* logout(): POST /auth/logout ends the session at the server; AuthProvider
\* resets me, error and loading. Nothing else is reset.
Logout ==
    /\ sessionActive
    /\ sessionActive' = FALSE
    /\ authState' = [me |-> {}, present |-> FALSE, loading |-> FALSE, error |-> FALSE]
    /\ UNCHANGED <<routeStatus, ME_CACHE, authLoad>>
    /\ UNCHANGED outsideRoute

\* The user signs in again (/auth/exchange sets new cookies).
Login ==
    /\ ~sessionActive
    /\ sessionActive' = TRUE
    /\ UNCHANGED <<routeStatus, ME_CACHE, authState, authLoad>>
    /\ UNCHANGED outsideRoute

\* loadContext() up to its await: at boot, or through refreshContext().
AuthLoadStart ==
    /\ authLoad.status # "inflight"
    /\ authLoad' = [status |-> "inflight", code |-> "-"]
    /\ authState' = [authState EXCEPT !.loading = TRUE, !.error = FALSE]
    /\ UNCHANGED <<routeStatus, ME_CACHE, sessionActive>>
    /\ UNCHANGED outsideRoute

\* Its GET /me/context settles, after the wrapper's own refresh and retry.
AuthLoadSettles ==
    \E code \in LoadCodes :
        /\ authLoad.status = "inflight"
        /\ code = "OK" => sessionActive
        /\ authLoad' = [status |-> "done", code |-> code]
        /\ authState' = loadContextSettled(code)
        /\ UNCHANGED <<routeStatus, ME_CACHE, sessionActive>>
        /\ UNCHANGED outsideRoute

(***************************************************************************)
(* Specifications                                                          *)
(***************************************************************************)
InitGuard == ServerInit /\ GuardIdle /\ AbacIdle /\ HttpIdle /\ PermCacheIdle /\ RotationIdle /\ ResolverIdle /\ AclIdle /\ GateIdle /\ MeIdle /\ RouteIdle

NextGuard ==
    \/ GuardRequest
    \/ GuardReturn
    \/ BumpEV
    \/ BlockJti
    \/ RedisOutage
    \/ RedisRecovered
    \/ ChangeMembership
    \/ ChangeOtherMembership

SpecGuard == InitGuard /\ [][NextGuard]_vars

InitRevocation == ServerInit /\ GuardIdle /\ AbacIdle /\ HttpIdle /\ PermCacheIdle /\ RotationIdle /\ ResolverIdle /\ AclIdle /\ GateIdle /\ MeIdle /\ RouteIdle

NextRevocation ==
    \/ GuardRequest
    \/ GuardReturn
    \/ BlockJti
    \/ LogoutFallback
    \/ RedisOutage
    \/ RedisRecovered

SpecRevocation == InitRevocation /\ [][NextRevocation]_vars

InitRotation == ServerInit /\ GuardIdle /\ AbacIdle /\ HttpIdle /\ PermCacheIdle /\ RotationIdle /\ ResolverIdle /\ AclIdle /\ GateIdle /\ MeIdle /\ RouteIdle

NextRotation ==
    \/ AuthRefresh
    \/ GuardRequest
    \/ GuardReturn
    \/ RedisOutage
    \/ RedisRecovered

SpecRotation == InitRotation /\ [][NextRotation]_vars

InitResolver ==
    /\ ServerInit /\ GuardIdle /\ AbacIdle /\ HttpIdle /\ PermCacheIdle /\ RotationIdle /\ AclIdle /\ GateIdle /\ MeIdle /\ RouteIdle
    /\ ResolverInit

NextResolver == Resolve \/ GrantRole \/ RevokeRole

SpecResolver == InitResolver /\ [][NextResolver]_vars

\* EV bumps in a row followed by one guard run: no response is returned,
\* so nothing reads the EV between the bumps.
InitBumps == ServerInit /\ GuardIdle /\ AbacIdle /\ HttpIdle /\ PermCacheIdle /\ RotationIdle /\ ResolverIdle /\ AclIdle /\ GateIdle /\ MeIdle /\ RouteIdle

NextBumps ==
    \/ BumpEV
    \/ RedisOutage
    \/ RedisRecovered
    \/ GuardRequest

SpecBumps == InitBumps /\ [][NextBumps]_vars

InitAcl == ServerInit /\ GuardIdle /\ AbacIdle /\ HttpIdle /\ PermCacheIdle /\ RotationIdle /\ ResolverIdle /\ AclIdle /\ GateIdle /\ MeIdle /\ RouteIdle

NextAcl == AclCall \/ AclDone

SpecAcl == InitAcl /\ [][NextAcl]_vars

InitGate == ServerInit /\ GuardIdle /\ AbacIdle /\ HttpIdle /\ PermCacheIdle /\ RotationIdle /\ ResolverIdle /\ AclIdle /\ GateIdle /\ MeIdle /\ RouteIdle

NextGate == GateRender \/ GateUnmount

SpecGate == InitGate /\ [][NextGate]_vars

InitMe == ServerInit /\ GuardIdle /\ AbacIdle /\ HttpIdle /\ PermCacheIdle /\ RotationIdle /\ ResolverIdle /\ AclIdle /\ GateIdle /\ MeIdle /\ RouteIdle

NextMe ==
    \/ MeMountEffect
    \/ LoadCompletes
    \/ AuthRefreshedEvent
    \/ HandleChange
    \/ SwitchResponse
    \/ WaitTimeout

SpecMe == InitMe /\ [][NextMe]_vars

InitRoute == ServerInit /\ GuardIdle /\ AbacIdle /\ HttpIdle /\ PermCacheIdle /\ RotationIdle /\ ResolverIdle /\ AclIdle /\ GateIdle /\ MeIdle /\ RouteIdle

NextRoute ==
    \/ RouteMount
    \/ RouteCheckSettles
    \/ RouteUnmount
    \/ CacheExpires
    \/ Logout
    \/ Login
    \/ AuthLoadStart
    \/ AuthLoadSettles

SpecRoute == InitRoute /\ [][NextRoute]_vars

InitAbac == ServerInit /\ GuardIdle /\ AbacIdle /\ HttpIdle /\ PermCacheIdle /\ RotationIdle /\ ResolverIdle /\ AclIdle /\ GateIdle /\ MeIdle /\ RouteIdle

NextAbac == AbacCall \/ AbacDone

SpecAbac == InitAbac /\ [][NextAbac]_vars

InitHttp == ServerInit /\ GuardIdle /\ AbacIdle /\ HttpIdle /\ PermCacheIdle /\ RotationIdle /\ ResolverIdle /\ AclIdle /\ GateIdle /\ MeIdle /\ RouteIdle

NextHttp ==
    \/ AppRequest
    \/ FetchResponse
    \/ RefreshResponse
    \/ AfterRefresh
    \/ CallerDone
    \/ CookieChange

SpecHttp == InitHttp /\ [][NextHttp]_vars

\* The web client with every method, fetchJson, and a kydo_csrf cookie that
\* comes, changes and goes.
NextCsrf ==
    \/ AppRequest
    \/ FetchJsonCall
    \/ FetchResponse
    \/ RefreshResponse
    \/ AfterRefresh
    \/ CallerDone
    \/ CsrfCookieChange

SpecCsrf == InitHttp /\ [][NextCsrf]_vars

\* The web client with pages that abort their requests.
NextAbort == NextHttp \/ Abort

SpecAbort == InitHttp /\ [][NextAbort]_vars

InitSession == SessionInit /\ GuardIdle /\ AbacIdle /\ PermCacheIdle /\ RotationIdle /\ ResolverIdle /\ AclIdle /\ GateIdle /\ MeIdle /\ RouteIdle

NextSession ==
    \/ AppRequest
    \/ SessionAnswer
    \/ SessionRefresh
    \/ AfterRefresh
    \/ CallerDone
    \/ SessionBumpEV

SpecSession == InitSession /\ [][NextSession]_vars

InitPermCache == ServerInit /\ GuardIdle /\ AbacIdle /\ HttpIdle /\ PermCacheIdle /\ RotationIdle /\ ResolverIdle /\ AclIdle /\ GateIdle /\ MeIdle /\ RouteIdle

NextPermCache ==
    \/ GetOrCompute
    \/ ResolverReturns
    \/ WaiterReceives
    \/ CallerReturns
    \/ PermsetExpires
    \/ RolesChange

SpecPermCache == InitPermCache /\ [][NextPermCache]_vars

(***************************************************************************)
(* Guard chain: claims                                                     *)
(***************************************************************************)
Answered == lastRes # NoResult
TokenEVBelowServer == lastReq.tok.ev < serverEV[Key(lastReq)]
Revoked == lastReq.tok.jti \in jtiBlock
NoActiveMembership == memberships[Key(lastReq)].status # "active"

C2_TenantFromToken ==
    lastRes.verdict = "AUTHORIZED"
        => /\ lastRes.ctx.tenantId = lastReq.tok.tid
           /\ lastRes.ctx.filters.tenantId = lastReq.tok.tid

\* An authorized request whose body names another tenant than the token.
C2_Witness ==
    /\ lastRes.verdict = "AUTHORIZED"
    /\ lastReq.clientTid # lastReq.tok.tid

\* C9 (as stated): every request whose user has no active membership in the
\* token's tenant fails with PERMISSION_DENIED.
C9_NoMembershipAlwaysDenied ==
    (Answered /\ lastReq.tok.state = "ok" /\ NoActiveMembership)
        => lastRes.verdict = "PERMISSION_DENIED"

\* C9 (amended): every request that passed token verification, the revocation
\* check and the EV check, and whose user has no active membership (none,
\* inactive or suspended) in the token's tenant, fails with PERMISSION_DENIED,
\* also when the user has an active membership in another tenant.
C9_NoMembershipDeniedAfterTokenChecks ==
    (/\ Answered
     /\ lastReq.tok.state = "ok"
     /\ ~(redisUp /\ Revoked)
     /\ ~(redisUp /\ TokenEVBelowServer)
     /\ NoActiveMembership)
        => lastRes.verdict = "PERMISSION_DENIED"

\* Denied in t1 for want of an active membership while the same user holds an
\* active membership with the same roles in t2.
C9_Witness ==
    /\ lastRes.verdict = "PERMISSION_DENIED"
    /\ lastReq.tok.tid = "t1"
    /\ memberships[<<"t1", "u1">>].status \in {"none", "inactive", "suspended"}
    /\ memberships[<<"t2", "u1">>].status = "active"
    /\ memberships[<<"t2", "u1">>].roles = memberships[<<"t1", "u1">>].roles

\* The order the claim states, and what each check rejects, written from the
\* stores rather than from the guard's steps.
C10_Order ==
    <<"extract", "verify", "revocation", "ev", "membership", "rbac", "abac", "tenant">>

C10_Failure(step) ==
    CASE step = "extract" ->
            IF lastReq.tok.state = "absent" THEN "EXPIRED" ELSE "PASS"
      [] step = "verify" ->
            IF lastReq.tok.state = "noclaims" THEN "INVALID_TOKEN"
            ELSE IF lastReq.tok.state = "expired" THEN "EXPIRED" ELSE "PASS"
      [] step = "revocation" ->
            IF redisUp /\ Revoked THEN "EXPIRED" ELSE "PASS"
      [] step = "ev" ->
            IF redisUp /\ TokenEVBelowServer THEN "EV_OUTDATED" ELSE "PASS"
      [] step = "membership" ->
            IF NoActiveMembership THEN "PERMISSION_DENIED" ELSE "PASS"
      [] step = "rbac" ->
            LET perms == UNION {RolePermissions(r) : r \in memberships[Key(lastReq)].roles}
                ok == IF lastReq.route.mode = "all"
                      THEN lastReq.route.requires \subseteq perms
                      ELSE lastReq.route.requires \cap perms # {}
            IN IF ok THEN "PASS" ELSE "PERMISSION_DENIED"
      [] OTHER -> "PASS"

\* C10: the checks evaluated are a prefix of the stated order; the guard stops
\* at the first check that fails and reports that check's failure kind; it is
\* AUTHORIZED only after all eight.
C10_FirstFailureWins ==
    Answered =>
        LET n == Len(lastRes.checked) IN
        /\ n \in 1..Len(C10_Order)
        /\ \A i \in 1..n : lastRes.checked[i] = C10_Order[i]
        /\ \A i \in 1..(n - 1) : C10_Failure(C10_Order[i]) = "PASS"
        /\ IF lastRes.verdict = "AUTHORIZED"
           THEN n = Len(C10_Order) /\ C10_Failure(C10_Order[n]) = "PASS"
           ELSE /\ C10_Failure(C10_Order[n]) = lastRes.verdict
                /\ lastRes.verdict # "PASS"

\* A request that three checks would reject (revoked, outdated EV, no active
\* membership): the guard stops at revocation and reports EXPIRED.
C10_Witness ==
    /\ Answered
    /\ lastReq.tok.state = "ok"
    /\ redisUp /\ Revoked /\ TokenEVBelowServer /\ NoActiveMembership
    /\ lastRes.verdict = "EXPIRED"
    /\ lastRes.checked = <<"extract", "verify", "revocation">>

(***************************************************************************)
(* Web client: claims                                                      *)
(***************************************************************************)
\* The response was a 401 carrying one of the stale-permission codes.
StaleResponse(res) == res.status = 401 /\ toUpperCase(res.code) \in EV_CODES

InFlight == {p \in PromiseIds : promises[p].state = "inflight"}

\* C3: one call of request() awaits at most one refresh and sends its request
\* at most twice; the second send happens only with __retry set, after the
\* one refresh it awaited (which followed a 401 with a stale code); whatever
\* the re-sent request ends with, even the same stale code, ends the call.
\* A stale 401 reaches the caller of an auto-refreshing call only after that
\* one refresh was awaited.
C3_RefreshAndResendOnce ==
    \A c \in CallIds :
        LET call == calls[c] IN
        /\ call.awaits <= 1
        /\ call.sends <= 2
        /\ call.sends = 2 => call.retry
        /\ call.retry => call.awaits = 1
        /\ call.awaits = 1 => StaleResponse(call.first) /\ ~call.noAutoRefresh
        /\ call.pc = "refreshing" => call.sends = 1 /\ call.awaits = 1 /\ ~call.retry
        /\ (call.pc = "fetching" /\ call.retry) => call.sends = 2
        /\ (call.pc = "done" /\ StaleResponse(call.result) /\ ~call.noAutoRefresh)
               => call.awaits = 1
        /\ (call.pc = "done" /\ call.awaits = 1 /\ call.sends = 1)
               => call.result = call.first

\* A call was answered 401 EV_OUTDATED, awaited a refresh, re-sent its
\* request once, and ended with the stale code again.
C3_Witness ==
    \E c \in CallIds :
        /\ calls[c].pc = "done"
        /\ calls[c].retry
        /\ calls[c].sends = 2
        /\ calls[c].awaits = 1
        /\ StaleResponse(calls[c].result)

\* C6 (state part): at most one POST /auth/refresh is in flight, it is the
\* promise held in refreshPromise, and a call waiting for a refresh waits for
\* a promise ensureRefresh created.
C6_OneRefreshInFlight ==
    /\ Cardinality(InFlight) <= 1
    /\ \A p \in InFlight : refreshPromise = p
    /\ \A c \in CallIds :
          calls[c].pc = "refreshing" =>
              /\ calls[c].waitsOn \in PromiseIds
              /\ promises[calls[c].waitsOn].state \in {"inflight", "fulfilled", "rejected", "threw"}

\* C6 (step part): a call answered 401 EV while a refresh is in flight joins
\* that refresh without a new POST, and a waiting call goes on (re-sends or
\* fails) only when the refresh it waits for has settled.
C6_JoinAndWait ==
    \A c \in CallIds :
        /\ (calls[c].pc = "fetching" /\ calls'[c].pc = "refreshing" /\ InFlight # {})
               => /\ calls'[c].waitsOn \in InFlight
                  /\ promises' = promises
        /\ (calls[c].pc = "refreshing" /\ calls'[c].pc # "refreshing")
               => promises[calls[c].waitsOn].state \in {"fulfilled", "rejected", "threw"}

\* C6: concurrent 401 EV reactions share one refresh.
C6_SharedRefresh == []C6_OneRefreshInFlight /\ [][C6_JoinAndWait]_vars

\* Two calls wait for the same POST /auth/refresh, still in flight.
C6_Witness ==
    \E c, d \in CallIds :
        /\ c # d
        /\ calls[c].pc = "refreshing"
        /\ calls[d].pc = "refreshing"
        /\ calls[c].waitsOn = calls[d].waitsOn
        /\ calls[c].waitsOn \in InFlight

\* C8: the refreshes that follow one stale 401 form a chain (the wrapper's
\* refresh, then the refresh caused by the /me/context reload that the
\* auth:refreshed event started, and so on); the chain ends before it has
\* used every refresh the model allows.
C8_RefreshChainEnds ==
    \A p \in PromiseIds : promises[p].gen < MaxRefreshes

(***************************************************************************)
(* Web session: claims                                                     *)
(***************************************************************************)
EvOutdated == [status |-> 401, code |-> "EV_OUTDATED"]

\* C7 (state part): a request answered while its token's EV is below the
\* server's EV is rejected with 401 EV_OUTDATED; a call that waits for a
\* refresh was rejected that way; a request re-sent after the one refresh,
\* carrying the EV the server holds, succeeds.
C7_StaleRejectedRetrySucceeds ==
    \A c \in CallIds :
        LET call == calls[c]
            current == serverEV[<<call.tok.tid, call.tok.sub>>]
        IN /\ (call.pc = "done" /\ call.tok.ev < current) => call.result = EvOutdated
           /\ call.pc = "refreshing" => call.first = EvOutdated /\ call.tok.ev < current
           /\ (call.pc = "done" /\ call.retry /\ call.tok.ev = current)
                  => call.result = Ok200 /\ call.awaits = 1 /\ call.sends = 2
           /\ (call.pc = "fetching" /\ call.retry) => call.tok.ev > StartEV

\* C7 (step part): the refresh leaves the browser with a token carrying the
\* server's current EV.
C7_RefreshObtainsCurrentEV ==
    (\E p \in PromiseIds : promises[p].state = "inflight" /\ promises'[p].state = "fulfilled")
        => accessCookie'.ev = serverEV[SessionKey]

\* C7: EV bump, stale token rejected, one refresh, retry succeeds.
C7_BumpRefreshRetry ==
    []C7_StaleRejectedRetrySucceeds /\ [][C7_RefreshObtainsCurrentEV]_vars

\* The EV of (t1, u1) went from 5 to 6; a call sent with the EV=5 token was
\* rejected with EV_OUTDATED, waited for one refresh, was re-sent with the
\* EV=6 token and succeeded.
C7_Witness ==
    /\ serverEV[SessionKey] = 6
    /\ \E c \in CallIds :
          /\ calls[c].pc = "done"
          /\ calls[c].first = EvOutdated
          /\ calls[c].retry
          /\ calls[c].awaits = 1
          /\ calls[c].sends = 2
          /\ calls[c].tok.ev = 6
          /\ calls[c].result = Ok200

(***************************************************************************)
(* Permission cache: claims                                                *)
(***************************************************************************)
Running(key) ==
    {i \in ComputationIds : computations[i].state = "running" /\ computations[i].key = key}

\* C5 (state part): for each key at most one resolver call is open, and it
\* is the one in the coordination map; a waiter waits for a computation of
\* its own key; a caller served by a computation holds that computation's
\* result.
C5_OneComputationPerKey ==
    /\ \A key \in Keys :
          /\ Cardinality(Running(key)) <= 1
          /\ \A i \in Running(key) : inflight[key] = i
    /\ \A c \in CallerIds :
          /\ callers[c].pc = "waiting" =>
                /\ callers[c].comp \in ComputationIds
                /\ computations[callers[c].comp].state \in {"running", "done"}
                /\ computations[callers[c].comp].key = callers[c].key
          /\ (callers[c].pc = "done" /\ callers[c].how # "hit") =>
                /\ computations[callers[c].comp].state = "done"
                /\ callers[c].result = computations[callers[c].comp].result

\* C5 (step part): a miss for a key whose computation is open starts no
\* resolver call and waits for that computation.
C5_MissJoins ==
    \A c \in CallerIds :
        (/\ callers[c].pc = "idle"
         /\ callers'[c].pc = "waiting"
         /\ Running(callers'[c].key) # {})
            => /\ computations' = computations
               /\ callers'[c].comp \in Running(callers'[c].key)

\* C5: concurrent misses for one key share one recomputation and its result.
C5_SingleFlight == []C5_OneComputationPerKey /\ [][C5_MissJoins]_vars

\* All callers missed the cache for (t1, u1) while one computation was open,
\* and all hold the result of that single resolver call.
C5_Witness ==
    \E i \in ComputationIds :
        /\ computations[i].state = "done"
        /\ \A j \in ComputationIds \ {i} : computations[j].state = "unused"
        /\ \A c \in CallerIds :
              /\ callers[c].pc = "done"
              /\ callers[c].key = SessionKey
              /\ callers[c].comp = i
              /\ callers[c].result = computations[i].result
        /\ \E c \in CallerIds : callers[c].how = "joined"

(***************************************************************************)
(* getAbacFilters: claims                                                  *)
(***************************************************************************)
\* The membership getAbacFilters found for the active tenant, if any.
C4_Found == FindMembership(abacIn.me.memberships, abacIn.me.tenantId)
C4_Membership == abacIn.me.memberships[C4_Found]

\* C4: for a membership with no scoping attribute and no unrestricted (admin)
\* grant, a list query that uses the filters returns no row.
C4_NoScopeMatchesNothing ==
    (/\ abacOut.called
     /\ abacIn.me.present /\ abacIn.me.tenantId # "-"
     /\ C4_Found # 0
     /\ "admin" \notin C4_Membership.roles
     /\ ~NonEmptyArray(C4_Membership.roomIds)
     /\ ~NonEmptyArray(C4_Membership.siteIds))
        => abacOut.rows = {}

(***************************************************************************)
(* Claims: revocation across a Redis outage (SpecRevocation)               *)
(***************************************************************************)
\* The logout of this token was recorded by the fallback write while Redis
\* was unavailable.
RecordedInOutage == lastReq.tok.state = "ok" /\ lastReq.tok.jti \in dbRevoked

\* C11: once Redis has recovered, a token whose logout during the outage was
\* durably recorded by the fallback write path is rejected by every guard
\* run.
C11_RevokedInOutageRejectedAfterRecovery ==
    (Answered /\ redisUp /\ RecordedInOutage) => lastRes.verdict # "AUTHORIZED"

\* Every check of the chain other than the JTI check passes for the request.
OtherwiseValid ==
    \A i \in 1..Len(GuardOrder) :
        GuardOrder[i] # "revocation" => StepResult(GuardOrder[i], lastReq) = "PASS"

Denied == [status |-> 403, code |-> "PERMISSION_DENIED"]

\* C13: a request answered 403 PERMISSION_DENIED ends in that step: no
\* refresh is started or joined, the request is not sent again, and a first
\* attempt throws the 403 to its caller.
C13_DenialNeverRetried ==
    [][\A c \in CallIds :
          (calls[c].pc = "fetching" /\ calls'[c].pc # "fetching"
              /\ calls'[c].last = Denied) =>
             /\ calls'[c].pc = "done"
             /\ calls'[c].sends = calls[c].sends
             /\ calls'[c].awaits = calls[c].awaits
             /\ promises' = promises
             /\ refreshPromise' = refreshPromise
             /\ ~calls[c].retry => calls'[c].result = Denied]_vars

\* A first attempt was answered 403 and threw it after one send, no refresh.
C13_Witness ==
    \E c \in CallIds :
        /\ calls[c].pc = "done"
        /\ ~calls[c].noAutoRefresh
        /\ calls[c].last = Denied
        /\ calls[c].result = Denied
        /\ calls[c].sends = 1
        /\ calls[c].awaits = 0

Expired == [status |-> 401, code |-> "EXPIRED"]

\* C14: a first attempt (auto-refresh not disabled) answered 401 EXPIRED
\* goes on as for 401 EV_OUTDATED: it awaits one POST /auth/refresh, to send
\* the request once more afterwards.
C14_ExpiredRefreshesAndRetries ==
    [][\A c \in CallIds :
          (calls[c].pc = "fetching" /\ calls'[c].pc # "fetching"
              /\ ~calls[c].retry /\ ~calls[c].noAutoRefresh
              /\ calls'[c].last = Expired) =>
             /\ calls'[c].pc = "refreshing"
             /\ calls'[c].awaits = 1]_vars

\* C15: a call whose re-sent request failed throws that request's failure
\* (status and code); a call whose refresh failed throws an error without
\* having sent the request again.
C15_RetryFailureIsThrown ==
    \A c \in CallIds :
        calls[c].pc = "done" =>
            /\ (calls[c].sends = 2 /\ ~ResOk(calls[c].last)) =>
                   calls[c].result = calls[c].last
            /\ (calls[c].awaits = 1 /\ ~calls[c].retry) =>
                   (calls[c].sends = 1 /\ ~ResOk(calls[c].result))

(***************************************************************************)
(* Claims: refresh rotation and reuse (SpecRotation)                       *)
(***************************************************************************)
FamilyRevoked == \E j \in Jtis : sessions[j] = "revoked"
Refreshed == refreshLog' # refreshLog
FamilyToken == lastReq.tok.state = "ok" /\ lastReq.tok.jti \in Family

\* A refresh issues a new token id and retires the presented one.
RotationRenews ==
    (Refreshed /\ refreshLog'.outcome = "rotated") =>
        /\ refreshLog'.issued # refreshLog'.presented
        /\ sessions[refreshLog'.issued] = "unused"
        /\ sessions'[refreshLog'.issued] = "active"
        /\ sessions'[refreshLog'.presented] = "rotated"

Settled == {p \in PromiseIds : promises[p].state \in {"fulfilled", "rejected", "threw"}}
Waiter(c) == calls[c].pc = "refreshing"

\* The signal of a call waiting for the shared refresh is aborted: the
\* refresh and the slot are as before, and so is every other call.
C17_AbortLeavesRefresh ==
    \A c \in CallIds :
        (Waiter(c) /\ ~calls[c].aborted /\ calls'[c].aborted) =>
            /\ promises' = promises
            /\ refreshPromise' = refreshPromise
            /\ \A d \in CallIds \ {c} : calls'[d] = calls[d]

\* A waiter that was not aborted goes on with the outcome of the refresh it
\* awaited, and with nothing else: the request is sent again after a
\* fulfilled refresh, the first response's error is thrown after a failed one.
C17_WaiterGetsResult ==
    \A d \in CallIds :
        (Waiter(d) /\ ~calls[d].aborted /\ ~calls'[d].aborted
            /\ calls'[d] # calls[d]) =>
            /\ calls[d].waitsOn \in Settled
            /\ IF promises[calls[d].waitsOn].state = "fulfilled"
               THEN \/ calls'[d].pc = "fetching" /\ calls'[d].sends = 2
                    \/ calls'[d].pc = "done" /\ calls'[d].result = calls[d].first
                          /\ csrfHeaderFor(calls[d].method) = "throws"
               ELSE calls'[d].pc = "done" /\ calls'[d].result = calls[d].first

TeacherOfRoomA ==
    /\ \A i \in 1..4 : StepResult(GuardOrder[i], lastReq) = "PASS"
    /\ memberships[Key(lastReq)] = Membership("active", TeacherProfile)

ListRoom == [requires |-> {"students.list_room"}, mode |-> "all"]
ListAll == [requires |-> {"students.list_all"}, mode |-> "all"]

\* C18: for a teacher (students.view, students.list_room) of room-a, the
\* room-scoped list is authorized with the filter restricting the room to
\* {"room-a"}, and the list-all action requiring students.list_all is denied.
C18_TeacherScopedToRoom ==
    (Answered /\ TeacherOfRoomA) =>
        /\ ResolvedPermissions(lastReq) = {"students.view", "students.list_room"}
        /\ lastReq.route = ListRoom =>
              /\ lastRes.verdict = "AUTHORIZED"
              /\ lastRes.ctx.filters.currentRoomId = {"room-a"}
              /\ lastRes.ctx.filters.tenantId = lastReq.tok.tid
        /\ lastReq.route = ListAll => lastRes.verdict = "PERMISSION_DENIED"

\* The teacher's room-scoped list was authorized and scoped to room-a.
C18_Witness ==
    /\ Answered
    /\ TeacherOfRoomA
    /\ lastReq.route = ListRoom
    /\ lastRes.verdict = "AUTHORIZED"
    /\ lastRes.ctx.filters.currentRoomId = {"room-a"}

(***************************************************************************)
(* Claims: flattening the roles of a membership (SpecResolver)             *)
(***************************************************************************)
\* C19: the resolved permission set is the union of the permission lists of
\* the membership's roles: it holds every permission of every role held and
\* nothing else, and a role added to the membership removes no permission.
C19_UnionOfRoles ==
    flattened.resolved =>
        /\ \A r \in memberRoles : RolePermissions(r) \subseteq flattened.permissions
        /\ \A p \in flattened.permissions :
              \E r \in memberRoles : p \in RolePermissions(r)
        /\ (flattenedBefore.known /\ flattenedBefore.roles \subseteq memberRoles) =>
              flattenedBefore.permissions \subseteq flattened.permissions

\* A teacher was also made a parent: the set is a proper superset of each
\* role's list.
C19_Witness ==
    /\ flattened.resolved
    /\ flattenedBefore.known
    /\ flattenedBefore.roles = {"teacher"}
    /\ memberRoles = {"teacher", "parent"}
    /\ flattened.permissions =
          {"students.view", "students.list_room", "students.list_guardian"}

(***************************************************************************)
(* Claims: EV bumps with no read in between (SpecBumps)                    *)
(***************************************************************************)
\* The guard run reached the EV check: extraction, verification and the
\* JTI check passed.
ReachedEV == \A i \in 1..3 : StepResult(GuardOrder[i], lastReq) = "PASS"
AcceptedByEV == lastRes.verdict # "EV_OUTDATED"
FinalEV == serverEV[Key(lastReq)]

ExpectedCsrf(method) ==
    IF method \in unsafeMethods /\ csrfCookie # "absent" THEN csrfCookie ELSE "none"

Declared == {x \in EntriesOf(aclIn.me, aclIn.kind) : x.id = aclIn.id}

\* The claim's rule, read on the payload as it is: declared, and every
\* permission of the requires list is among the user's permissions.
AllowedAsStated ==
    /\ aclIn.me.present
    /\ Declared # {}
    /\ \A x \in Declared :
          x.requires.kind = "array" => x.requires.items \subseteq aclIn.me.permissions

\* Codes as the server writes them: no surrounding blanks, no empty string.
WellFormedCodes ==
    /\ \A p \in aclIn.me.permissions : p \in PermissionCodes
    /\ \A x \in Declared : x.requires.items \subseteq PermissionCodes

NoRule ==
    /\ gateIn.props.allOf.items = {}
    /\ gateIn.props.anyOf.items = {}
    /\ gateIn.props.requires.items = {}
    /\ gateIn.props.pageId = ""
    /\ gateIn.props.actionId = ""

\* C23: guard() and RequirePerms given no allOf / anyOf, and the Acl of
\* components/acl given no pageId / actionId / requires, never render
\* their protected children, whatever the context.
C23_NoRuleNeverRendersNamedGates ==
    (gateOut # "-" /\ NoRule /\ gateIn.gate \in {"guard", "RequirePerms", "Acl"})
        => gateOut # "children"

\* RequirePerms without a rule, under a loaded context with permissions:
\* the denial comes from evaluate's last test.
C23_Witness ==
    /\ gateIn.gate = "RequirePerms"
    /\ NoRule
    /\ ~gateIn.ctx.loading
    /\ ~gateIn.ctx.error
    /\ gateIn.ctx.me.permissions = PermissionCodes
    /\ gateOut = "fallback"

\* The user's permissions satisfy the requires list of the gate.
RequiresSatisfied ==
    /\ gateIn.ctx.me.present
    /\ IF gateIn.props.mode = "any"
       THEN gateIn.props.requires.items \cap gateIn.ctx.me.permissions # {}
       ELSE gateIn.props.requires.items \subseteq gateIn.ctx.me.permissions

\* C24: an Acl gate given both an actionId and a requires list renders its
\* children exactly when the user's permissions satisfy requires (all of
\* them, or any of them when mode is "any").
C24_RequiresDecides ==
    (/\ gateIn.gate = "Acl"
     /\ gateIn.props.pageId = ""
     /\ gateIn.props.actionId # ""
     /\ gateIn.props.requires.items # {})
        => ((gateOut = "children") = RequiresSatisfied)

(***************************************************************************)
(* Claims: MeProvider, RequireAuth, TenantSwitcher (SpecMe)                *)
(***************************************************************************)
\* A /me/context load for the tenant switched to has completed.
RefetchedNewTenant ==
    \E i \in DOMAIN loads :
        loads[i].status = "done" /\ loads[i].tenant = switcher.next

\* C25: after a successful tenant switch, TenantSwitcher calls onSwitched
\* (and re-enables the control) only after MeProvider has finished
\* refetching /me/context for the new tenant.
C25_OnSwitchedAfterRefetch ==
    [][(~switcher.called /\ switcher'.called) => RefetchedNewTenant']_vars

\* No /me/context load of MeProvider has completed yet.
NoLoadCompleted == \A i \in DOMAIN loads : loads[i].status # "done"

\* C26: from MeProvider's mount until its first /me/context load completes,
\* RequireAuth renders the loading UI: it neither redirects to the login
\* page nor renders its children.
C26_LoadingUntilFirstLoad ==
    NoLoadCompleted => RequireAuth = "loading"

\* The outcome of the load started last.
LatestOutcome == loads[Len(loads)].result

\* C28: whenever no /me/context request is in flight, MeProvider's me is
\* the outcome of the most recently started load, even when loads overlap
\* and complete out of order.
C28_MeIsLatestLoad ==
    (loads # <<>> /\ InFlightLoads = {}) => meState.me = LatestOutcome

(***************************************************************************)
(* Claims: the refresh slot (SpecHttp)                                     *)
(***************************************************************************)
\* The refresh attempt behind promise p has settled: its POST succeeded or
\* failed, or it failed before the POST was sent.
AttemptSettled(p) == promises[p].state \in {"fulfilled", "rejected", "threw"}

\* C27: after a refresh attempt has settled, by success or by failure,
\* including a failure raised before the network call, refreshPromise is
\* empty again, so that the next 401 EV starts a new POST /auth/refresh.
C27_SlotEmptyAfterSettled ==
    \A p \in PromiseIds : AttemptSettled(p) => refreshPromise # p

(***************************************************************************)
(* Claims: ProtectedRoute and AuthProvider (SpecRoute)                     *)
(***************************************************************************)
\* C29: after a logout has completed, ProtectedRoute renders its children
\* only after a new successful GET /me/context; a check cached before the
\* logout never allows access.  While the session is ended no GET can
\* succeed, so the route must not become allowed.
C29_NoAccessFromCacheAfterLogout ==
    [][(routeStatus # "allowed" /\ routeStatus' = "allowed") => sessionActive']_vars

\* The last load of AuthProvider failed with an authorization error other
\* than EXPIRED and EV_OUTDATED.
LoadDenied == authLoad.status = "done" /\ authLoad.code = "PERMISSION_DENIED"

\* C30: after a /me/context load failed with an authorization error other
\* than EXPIRED or EV_OUTDATED (403 PERMISSION_DENIED), AuthProvider's me
\* is null and hasPerm is false for every non-empty requirement.
C30_DeniedLoadClearsContext ==
    LoadDenied =>
        /\ ~authState.present
        /\ \A requires \in (SUBSET PermissionCodes) \ {{}} : ~hasPerm(requires)

====
